---- MODULE Spec2Model ----
(***************************************************************************)
(* A model of the greedy registration driver (src/src/greedy_main.cxx).    *)
(*                                                                         *)
(* Spec          the command-line parser of main() followed by the         *)
(*               dispatch to GreedyApproach::Run and the top-level         *)
(*               exception handler.                                        *)
(*                                                                         *)
(* SpecRun       GreedyApproach::Run: the four run modes (deformable,      *)
(*               affine, brute force, reslice) step by step, started from  *)
(*               parameters the parser can produce, drawn from bounded     *)
(*               sets.                                                     *)
(*                                                                         *)
(* Numbers are integers: images, matrices and offsets are chosen so that   *)
(* every division the code makes is exact.                                 *)
(***************************************************************************)
EXTENDS Integers, Sequences, FiniteSets, TLC

VARIABLES
    pc,      \* position of the program
    cl,      \* CommandLineHelper: argc and the read position i
    param,   \* GreedyParameters, with main()'s locals interp_current
    out,     \* what the process has produced: exit code, stderr lines, files
    hist,    \* history of the inputs read so far (not program state)
    aff,     \* RunAffine: level, Q_physical, tLevel, xLevel
    dfm,     \* RunDeformable: level, iter
    rs,      \* RunReslice and ReadTransformChain: positions, labels
    files,   \* the files written so far, in order
    itr,     \* one deformable iteration: its buffers uk, uk1, viTemp
    chn,     \* ReadTransformChain: the composite warp, voxel by voxel
    rdm,     \* ReadAffineMatrix: the file and the matrix Qp being filled
    cnv,     \* the conversions between voxel space and RAS
    use      \* what a run does with the parsed parameters, use by use;
             \* the images of the brute-force search and of the label voting;
             \* the accumulators of the affine metric filter

mainVars == <<pc, cl, param, out, hist>>

kernVars == <<itr, chn, rdm, cnv, use>>

runVars == <<aff, dfm, rs, files, itr, chn, rdm, cnv, use>>

vars == <<pc, cl, param, out, hist, aff, dfm, rs, files, itr, chn, rdm, cnv, use>>

(***************************************************************************)
(* Bounds of the model.                                                    *)
(***************************************************************************)
\* largest argc (argv[0] included) of a command line
MaxArgc == 6

(***************************************************************************)
(* Values.                                                                 *)
(***************************************************************************)
\* the value of `return -1` / `return usage()` in main
ExitFailure == -1

\* the value of `return 0` at the end of a run
ExitSuccess == 0

\* names a user may give to -m: the documented ones and an undocumented one
MetricNames == {"SSD", "NCC", "ncc", "MI", "mi", "NMI"}

\* names a user may give to -tscale
StepNames == {"CONST", "SCALE", "scale", "SCALEDOWN", "scaledown", "FAST"}

\* names a user may give to -ri
InterpNames == {"NN", "nn", "0", "LINEAR", "linear", "1", "LABEL", "label", "CUBIC"}

\* integer vectors given to -m NCC and -brute (read_int_vector)
RadiusVectors == {<<2, 2>>, <<1, 1, 1>>}

\* exponents given in a transform spec file,exponent (read_transform_spec
\* accepts every number)
Exponents == {1, -1, 2}

\* values given to -d
DimValues == {2, 3, 4, 5}

\* struct InterpSpec and its constructor
InterpSpecDefault == [mode |-> "LINEAR", sigma |-> 1]

\* the fields of GreedyParameters set at the top of main()
ParamDefault ==
    [ dim                 |-> 2,
      mode                |-> "GREEDY",
      metric              |-> "SSD",
      time_step_mode      |-> "SCALE",
      metric_radius       |-> << >>,
      brute_search_radius |-> << >>,
      ref_image           |-> FALSE,
      images              |-> << >>,
      transforms          |-> << >>,
      interp_current      |-> InterpSpecDefault,
      inputs              |-> << >>,
      current_weight      |-> 1,
      flag_dump_moving    |-> FALSE,
      dump_frequency      |-> 1 ]

HistDefault ==
    [ lastM       |-> "none",     \* name given to the last -m
      lastTscale  |-> "none",     \* name given to the last -tscale
      unknownName |-> FALSE,      \* an unrecognised -m / -tscale / -ri name was read
      unknownOpt  |-> FALSE,      \* an unknown option was read
      bruteBad    |-> FALSE,      \* RunBrute rejected its configuration
      sinceI      |-> << >>,      \* the -w values read since the last -i
      pairW       |-> << >>,      \* per -i, the -w values read before it since the -i before
      freqRead    |-> FALSE,      \* a -dump-freq value was read
      thrown      |-> FALSE,      \* an exception was thrown
      ran         |-> FALSE ]     \* a registration or reslice ran to its end

\* exit: << >> while the process runs, <<code>> once main has returned;
\* aborting: the number of ABORTING lines on stderr; stderr: other error lines
OutDefault == [exit |-> << >>, aborting |-> 0, stderr |-> 0]

\* most -rm pairs kept by the parser model
MaxImages == 2

(***************************************************************************)
(* CommandLineHelper                                                       *)
(***************************************************************************)
\* is_at_end
is_at_end == cl.i >= cl.argc

\* the command and its k arguments are all on the command line: none of the
\* read_arg calls runs past argc
HasArgs(k) == cl.i + k < cl.argc

\* the read position after a command and its k arguments
Advance(k) == [cl EXCEPT !.i = cl.i + 1 + k]

(***************************************************************************)
(* main(): the option loop                                                 *)
(***************************************************************************)
Init ==
    /\ pc = "start"
    /\ cl \in [argc : 1..MaxArgc, i : {1}]
    /\ param = ParamDefault
    /\ out = OutDefault
    /\ hist = HistDefault
    /\ aff = << >> /\ dfm = << >> /\ rs = << >> /\ files = << >>
    /\ itr = << >> /\ chn = << >> /\ rdm = << >> /\ cnv = << >> /\ use = << >>

\* if(argc < 3) return usage();
Start ==
    /\ pc = "start"
    /\ IF cl.argc < 3
          THEN /\ pc' = "exit"
               /\ out' = [out EXCEPT !.exit = <<ExitFailure>>]
          ELSE /\ pc' = "parse"
               /\ out' = out
    /\ UNCHANGED <<cl, param, hist>>
    /\ UNCHANGED runVars

InLoop == pc = "parse" /\ ~is_at_end

\* -d DIM
ParseD ==
    /\ InLoop /\ HasArgs(1)
    /\ \E d \in DimValues : param' = [param EXCEPT !.dim = d]
    /\ cl' = Advance(1)
    /\ UNCHANGED <<pc, out, hist>>
    /\ UNCHANGED runVars

\* the branch of -m taken for a metric name
SetMetric(name, radius) ==
    IF name = "NCC" \/ name = "ncc"
       THEN [param EXCEPT !.metric = "NCC", !.metric_radius = radius]
       ELSE IF name = "MI" \/ name = "mi"
               THEN [param EXCEPT !.metric = "MI"]
               ELSE param

\* -m metric [radius]
ParseM ==
    /\ InLoop
    /\ \E name \in MetricNames, radius \in RadiusVectors :
          LET k == IF name \in {"NCC", "ncc"} THEN 2 ELSE 1 IN
          /\ HasArgs(k)
          /\ param' = SetMetric(name, radius)
          /\ cl' = Advance(k)
          /\ hist' = [hist EXCEPT !.lastM = name,
                        !.unknownName = @ \/ name \notin {"SSD", "NCC", "ncc", "MI", "mi"}]
    /\ UNCHANGED <<pc, out>>
    /\ UNCHANGED runVars

\* the branch of -tscale taken for a mode name
SetTimeStepMode(name) ==
    IF name = "SCALE" \/ name = "scale"
       THEN [param EXCEPT !.time_step_mode = "SCALE"]
       ELSE IF name = "SCALEDOWN" \/ name = "scaledown"
               THEN [param EXCEPT !.time_step_mode = "SCALEDOWN"]
               ELSE param

\* -tscale MODE
ParseTscale ==
    /\ InLoop /\ HasArgs(1)
    /\ \E name \in StepNames :
          /\ param' = SetTimeStepMode(name)
          /\ hist' = [hist EXCEPT !.lastTscale = name,
                        !.unknownName = @ \/ name \notin
                            {"CONST", "SCALE", "scale", "SCALEDOWN", "scaledown"}]
    /\ cl' = Advance(1)
    /\ UNCHANGED <<pc, out>>
    /\ UNCHANGED runVars

\* the branch of -ri taken for a mode name; the flag says whether the name
\* was reported on stderr as unknown
SetInterp(name, sigma) ==
    IF name = "nn" \/ name = "NN" \/ name = "0"
       THEN [param EXCEPT !.interp_current.mode = "NEAREST"]
       ELSE IF name = "linear" \/ name = "LINEAR" \/ name = "1"
               THEN [param EXCEPT !.interp_current.mode = "LINEAR"]
               ELSE IF name = "label" \/ name = "LABEL"
                       THEN [param EXCEPT !.interp_current.mode = "LABELWISE",
                                          !.interp_current.sigma = sigma]
                       ELSE param

\* -ri interp_mode [sigma]
ParseRi ==
    /\ InLoop
    /\ \E name \in InterpNames, sigma \in {1, 2} :
          LET k == IF name \in {"LABEL", "label"} THEN 2 ELSE 1
              known == name \in {"nn", "NN", "0", "linear", "LINEAR", "1", "label", "LABEL"}
          IN
          /\ HasArgs(k)
          /\ param' = SetInterp(name, sigma)
          /\ cl' = Advance(k)
          /\ hist' = [hist EXCEPT !.unknownName = @ \/ ~known]
          /\ out' = IF known THEN out ELSE [out EXCEPT !.stderr = @ + 1]
    /\ UNCHANGED pc
    /\ UNCHANGED runVars

\* -a
ParseA ==
    /\ InLoop
    /\ param' = [param EXCEPT !.mode = "AFFINE"]
    /\ cl' = Advance(0)
    /\ UNCHANGED <<pc, out, hist>>
    /\ UNCHANGED runVars

\* -brute radius
ParseBrute ==
    /\ InLoop /\ HasArgs(1)
    /\ \E radius \in RadiusVectors :
          param' = [param EXCEPT !.mode = "BRUTE", !.brute_search_radius = radius]
    /\ cl' = Advance(1)
    /\ UNCHANGED <<pc, out, hist>>
    /\ UNCHANGED runVars

\* -r [tran_spec ...]: command_arg_count free arguments, each a transform spec
ParseR ==
    /\ InLoop
    /\ \E nFiles \in 0..(cl.argc - cl.i - 1) :
       \E specs \in [1..nFiles -> Exponents] :
          /\ param' = [param EXCEPT !.mode = "RESLICE",
                                    !.transforms = @ \o specs]
          /\ cl' = Advance(nFiles)
    /\ UNCHANGED <<pc, out, hist>>
    /\ UNCHANGED runVars

\* -rm moving output
ParseRm ==
    /\ InLoop /\ HasArgs(2)
    /\ Len(param.images) < MaxImages
    /\ param' = [param EXCEPT !.images = Append(@, [interp |-> param.interp_current])]
    /\ cl' = Advance(2)
    /\ UNCHANGED <<pc, out, hist>>
    /\ UNCHANGED runVars

\* -rf fixed
ParseRf ==
    /\ InLoop /\ HasArgs(1)
    /\ param' = [param EXCEPT !.ref_image = TRUE]
    /\ cl' = Advance(1)
    /\ UNCHANGED <<pc, out, hist>>
    /\ UNCHANGED runVars

\* values given to -w (read_double takes every number)
WeightValues == {3, 0, -2}

\* values given to -dump-freq (read_integer takes every integer)
DumpFrequencies == {2, 0, -1}

\* -w weight: the local current_weight of main
ParseW ==
    /\ InLoop /\ HasArgs(1)
    /\ \E w \in WeightValues :
          /\ param' = [param EXCEPT !.current_weight = w]
          /\ hist' = [hist EXCEPT !.sinceI = Append(@, w)]
    /\ cl' = Advance(1)
    /\ UNCHANGED <<pc, out>>
    /\ UNCHANGED runVars

\* -i fixed moving: an ImagePairSpec with ip.weight = current_weight
ParseI ==
    /\ InLoop /\ HasArgs(2)
    /\ Len(param.inputs) < MaxImages
    /\ param' = [param EXCEPT !.inputs = Append(@, [weight |-> param.current_weight])]
    /\ hist' = [hist EXCEPT !.pairW = Append(@, hist.sinceI), !.sinceI = << >>]
    /\ cl' = Advance(2)
    /\ UNCHANGED <<pc, out>>
    /\ UNCHANGED runVars

\* -dump-moving
ParseDumpMoving ==
    /\ InLoop
    /\ param' = [param EXCEPT !.flag_dump_moving = TRUE]
    /\ cl' = Advance(0)
    /\ UNCHANGED <<pc, out, hist>>
    /\ UNCHANGED runVars

\* -dump-frequency N, -dump-freq N
ParseDumpFreq ==
    /\ InLoop /\ HasArgs(1)
    /\ \E f \in DumpFrequencies : param' = [param EXCEPT !.dump_frequency = f]
    /\ hist' = [hist EXCEPT !.freqRead = TRUE]
    /\ cl' = Advance(1)
    /\ UNCHANGED <<pc, out>>
    /\ UNCHANGED runVars

\* the final else of the option chain: std::cerr << "Unknown parameter";
\* return -1
ParseUnknown ==
    /\ InLoop
    /\ pc' = "exit"
    /\ out' = [out EXCEPT !.stderr = @ + 1, !.exit = <<ExitFailure>>]
    /\ cl' = Advance(0)
    /\ hist' = [hist EXCEPT !.unknownOpt = TRUE]
    /\ UNCHANGED param
    /\ UNCHANGED runVars

\* a read_* of CommandLineHelper throws GreedyException: the command line
\* ends inside an option, an argument is not a command, a number does not
\* parse or a file does not exist
ArgumentError ==
    /\ InLoop
    /\ pc' = "thrown"
    /\ cl' = Advance(0)
    /\ hist' = [hist EXCEPT !.thrown = TRUE]
    /\ UNCHANGED <<param, out>>
    /\ UNCHANGED runVars

(***************************************************************************)
(* main(): dispatch on the dimension and the mode                          *)
(***************************************************************************)
\* the parameter checks at the head of RunBrute: "ok" or the error line
BruteCheck(p) ==
    IF p.metric # "NCC" THEN "metric"
    ELSE IF Len(p.brute_search_radius) # p.dim THEN "radius"
    ELSE "ok"

\* the parameter checks at the head of RunReslice
ResliceCheck(p) == p.ref_image /\ Len(p.images) > 0

\* switch(param.dim) with a dimension no case names
DispatchWrongDim ==
    /\ pc = "parse" /\ is_at_end
    /\ param.dim \notin {2, 3, 4}
    /\ pc' = "thrown"
    /\ hist' = [hist EXCEPT !.thrown = TRUE]
    /\ UNCHANGED <<cl, param, out>>
    /\ UNCHANGED runVars

\* GreedyApproach<VDim>::Run entered for the parsed mode
Dispatch ==
    /\ pc = "parse" /\ is_at_end
    /\ param.dim \in {2, 3, 4}
    /\ pc' = "run"
    /\ UNCHANGED <<cl, param, out, hist>>
    /\ UNCHANGED runVars

\* RunBrute returns -1 on an invalid configuration
RunBruteRejects ==
    /\ pc = "run"
    /\ param.mode = "BRUTE" /\ BruteCheck(param) # "ok"
    /\ pc' = "exit"
    /\ out' = [out EXCEPT !.stderr = @ + 1, !.exit = <<ExitFailure>>]
    /\ hist' = [hist EXCEPT !.bruteBad = TRUE]
    /\ UNCHANGED <<cl, param>>
    /\ UNCHANGED runVars

\* the run throws: RunReslice without -rf or -rm, or any step of a run that
\* reads or writes a file
RunThrows ==
    /\ pc = "run"
    /\ ~(param.mode = "BRUTE" /\ BruteCheck(param) # "ok")
    /\ pc' = "thrown"
    /\ hist' = [hist EXCEPT !.thrown = TRUE]
    /\ UNCHANGED <<cl, param, out>>
    /\ UNCHANGED runVars

\* the run reaches its `return 0`
RunReturns ==
    /\ pc = "run"
    /\ ~(param.mode = "BRUTE" /\ BruteCheck(param) # "ok")
    /\ param.mode = "RESLICE" => ResliceCheck(param)
    /\ pc' = "exit"
    /\ out' = [out EXCEPT !.exit = <<ExitSuccess>>]
    /\ hist' = [hist EXCEPT !.ran = TRUE]
    /\ UNCHANGED <<cl, param>>
    /\ UNCHANGED runVars

\* a handler that swallows the exception and reports success
CatchSwallows ==
    /\ pc = "thrown"
    /\ pc' = "exit"
    /\ out' = [out EXCEPT !.exit = <<ExitSuccess>>]
    /\ UNCHANGED <<cl, param, hist>>
    /\ UNCHANGED runVars

\* catch(std::exception &exc): one ABORTING line, return -1
Catch ==
    /\ pc = "thrown"
    /\ pc' = "exit"
    /\ out' = [out EXCEPT !.aborting = @ + 1, !.exit = <<ExitFailure>>]
    /\ UNCHANGED <<cl, param, hist>>
    /\ UNCHANGED runVars

Next ==
    \/ Start
    \/ ParseD \/ ParseM \/ ParseTscale \/ ParseRi
    \/ ParseA \/ ParseBrute \/ ParseR \/ ParseRm \/ ParseRf
    \/ ParseUnknown \/ ArgumentError
    \/ DispatchWrongDim \/ Dispatch
    \/ RunBruteRejects \/ RunThrows \/ RunReturns
    \/ Catch

Spec == Init /\ [][Next]_vars

(***************************************************************************)
(* Claims about the command line and the top-level driver (Spec)           *)
(***************************************************************************)
\* the command line has been read to its end and Run has been entered
AfterParsing == pc = "run"

\* the step mode a documented -tscale name stands for (usage, line 89);
\* SCALE when no -tscale was given
StepModeNamed(name) ==
    CASE name = "CONST"     -> "CONST"
      [] name = "SCALE"     -> "SCALE"
      [] name = "SCALEDOWN" -> "SCALEDOWN"
      [] OTHER              -> "SCALE"

\* C5: after command-line parsing the time-step mode is the mode named by
\* the last -tscale option, for each of CONST, SCALE and SCALEDOWN, and it is
\* SCALE when no -tscale option was given.
C5_StepModeIsLastTscale ==
    (AfterParsing /\ hist.lastTscale \in {"none", "CONST", "SCALE", "SCALEDOWN"})
        => param.time_step_mode = StepModeNamed(hist.lastTscale)

\* the metric a documented -m name stands for; SSD when no -m was given
MetricNamed(name) ==
    CASE name = "NCC" -> "NCC"
      [] name = "MI"  -> "MI"
      [] OTHER        -> "SSD"

\* C6: after parsing, the metric in effect is the one named by the last -m
\* option (SSD, NCC or MI), and SSD when no -m was given.
C6_MetricIsLastM ==
    (AfterParsing /\ hist.lastM \in {"none", "SSD", "NCC", "MI"})
        => param.metric = MetricNamed(hist.lastM)

\* C7: once an unrecognised -m, -tscale or -ri name has been read, no
\* registration or reslice is entered or completed, and the process does not
\* exit with code 0.
C7_UnknownNameIsError ==
    hist.unknownName =>
        /\ pc # "run"
        /\ ~hist.ran
        /\ out.exit # <<ExitSuccess>>

\* an error of the kinds C10 lists was detected
ErrorDetected == hist.unknownOpt \/ hist.bruteBad \/ hist.thrown

\* the process has exited after a command line long enough to be parsed
Exited == pc = "exit" /\ cl.argc >= 3

\* C10 as stated: every detected error (unknown option, invalid brute-force
\* configuration, thrown exception) ends with exactly one ABORTING line and a
\* nonzero exit code, and a run without error ends with exit code 0.
C10_EveryErrorAborts ==
    Exited =>
        IF ErrorDetected
           THEN out.aborting = 1 /\ out.exit # <<ExitSuccess>>
           ELSE out.exit = <<ExitSuccess>>

\* C10 amended: every such error ends with a nonzero exit code; the ABORTING
\* line is printed exactly once when the error is a thrown exception, and not
\* at all for an unknown option or an invalid brute-force configuration,
\* which print their own line; a run without any of these ends with code 0
\* and no ABORTING line.
C10_ExitCodes ==
    /\ out.aborting <= 1
    /\ Exited =>
          /\ hist.thrown => out.aborting = 1 /\ out.exit = <<ExitFailure>>
          /\ (hist.unknownOpt \/ hist.bruteBad) =>
                out.aborting = 0 /\ out.stderr >= 1 /\ out.exit = <<ExitFailure>>
          /\ ~ErrorDetected => out.aborting = 0 /\ out.exit = <<ExitSuccess>>

\* C10 witness: an exception thrown while parsing or running was caught and
\* the process has exited
C10_Witness ==
    Exited /\ hist.thrown /\ out.aborting = 1 /\ out.exit = <<ExitFailure>>

(***************************************************************************)
(* GreedyApproach::Run: bounds and inputs of the run model                 *)
(***************************************************************************)
\* most resolution levels of an iteration schedule
MaxLevels == 3

\* iteration counts a level of a schedule may carry (read_int_vector keeps
\* the sign)
IterCounts == {-1, 0, 2}

\* the schedules -n accepts, up to MaxLevels levels
Schedules == UNION {[1..n -> IterCounts] : n \in 1..MaxLevels}

\* 2^k
RECURSIVE Pow2(_)
Pow2(k) == IF k = 0 THEN 1 ELSE 2 * Pow2(k - 1)

\* the unit of every physical length of the model: a multiple of the largest
\* pyramid factor, so that voxel offsets stay whole numbers
Unit == Pow2(MaxLevels - 1)

(***************************************************************************)
(* Vectors and matrices (vnl_vector, vnl_matrix): sequences, and sequences *)
(* of rows. A default-constructed vnl_matrix is << >>, of size 0 x 0.      *)
(***************************************************************************)
RECURSIVE Dot(_, _)
Dot(u, v) == IF Len(u) = 0 THEN 0 ELSE u[1] * v[1] + Dot(Tail(u), Tail(v))

Rows(M) == Len(M)

Cols(M) == IF Len(M) = 0 THEN 0 ELSE Len(M[1])

Column(M, j) == [i \in 1..Len(M) |-> M[i][j]]

MatVec(M, v) == [i \in 1..Len(M) |-> Dot(M[i], v)]

MatMul(M, N) == [i \in 1..Len(M) |-> [j \in 1..Cols(N) |-> Dot(M[i], Column(N, j))]]

IdentityMatrix(n) == [i \in 1..n |-> [j \in 1..n |-> IF i = j THEN 1 ELSE 0]]

\* a linear transform (itk::MatrixOffsetTransformBase) of dimension n with
\* diagonal d, off-diagonal o and offset c, 2c, ...
MakeTransform(n, d, o, c) ==
    [ A |-> [i \in 1..n |-> [j \in 1..n |-> IF i = j THEN d ELSE o]],
      b |-> [i \in 1..n |-> c * i] ]

\* the homogeneous (n+1) x (n+1) matrix of a matrix Q and an offset p:
\* Qp.set_identity(), then Qp(i,j) = Q(i,j), Qp(i,VDim) = p(i)
Homogeneous(Q, p) ==
    LET n == Len(Q) IN
    [i \in 1..(n + 1) |-> [j \in 1..(n + 1) |->
        IF i <= n THEN (IF j <= n THEN Q[i][j] ELSE p[i])
                  ELSE (IF j <= n THEN 0 ELSE 1)]]

(***************************************************************************)
(* Image geometry of the pyramid levels                                    *)
(***************************************************************************)
\* SetDefaultPyramidFactors(n): level l of n is shrunk by 2^(n-1-l)
PyramidFactor(level, nlevels) == Pow2(nlevels - 1 - level)

\* the reference (fixed) space of a level: spacing, origin (LPS) and size of
\* an image of full size 2 * Unit with unit spacing; the direction is the
\* identity
ReferenceSpace(n, level, nlevels) ==
    [ spacing |-> [i \in 1..n |-> PyramidFactor(level, nlevels)],
      origin  |-> [i \in 1..n |-> Unit * i],
      size    |-> [i \in 1..n |-> (2 * Unit) \div PyramidFactor(level, nlevels)] ]

\* the moving space of a level: the same grid at another origin
MovingReferenceSpace(n, level, nlevels) ==
    [ spacing |-> [i \in 1..n |-> PyramidFactor(level, nlevels)],
      origin  |-> [i \in 1..n |-> -Unit],
      size    |-> [i \in 1..n |-> (2 * Unit) \div PyramidFactor(level, nlevels)] ]

\* m_lps_to_ras: 1 everywhere, -1 on the first two axes
LpsToRas(i) == IF i <= 2 THEN -1 ELSE 1

\* GetVoxelSpaceToNiftiSpaceTransform: the diagonal of A = lps_to_ras * dir *
\* scale (dir the identity) and b = lps_to_ras * origin
VoxelSpaceToNiftiSpace(image) ==
    [ A |-> [i \in 1..Len(image.spacing) |-> LpsToRas(i) * image.spacing[i]],
      b |-> [i \in 1..Len(image.origin) |-> LpsToRas(i) * image.origin[i]] ]

\* MapAffineToPhysicalRASSpace: Q = T_mov * A * inverse(T_fix),
\* p = T_mov * b + s_mov - Q * s_fix, returned as a homogeneous matrix
MapAffineToPhysicalRASSpace(n, level, nlevels, tran) ==
    LET fix == VoxelSpaceToNiftiSpace(ReferenceSpace(n, level, nlevels))
        mov == VoxelSpaceToNiftiSpace(MovingReferenceSpace(n, level, nlevels))
        Q == [i \in 1..n |-> [j \in 1..n |-> (mov.A[i] * tran.A[i][j]) \div fix.A[j]]]
        Qs == MatVec(Q, fix.b)
        p == [i \in 1..n |-> mov.A[i] * tran.b[i] + mov.b[i] - Qs[i]]
    IN Homogeneous(Q, p)

\* MapPhysicalRASSpaceToAffine with the term Q * s_fix left out of b
MapPhysicalRASSpaceToAffineNoFix(n, level, nlevels, Qp) ==
    LET fix == VoxelSpaceToNiftiSpace(ReferenceSpace(n, level, nlevels))
        mov == VoxelSpaceToNiftiSpace(MovingReferenceSpace(n, level, nlevels))
        Q == [i \in 1..n |-> [j \in 1..n |-> Qp[i][j]]]
        p == [i \in 1..n |-> Qp[i][n + 1]]
    IN [ A |-> [i \in 1..n |-> [j \in 1..n |-> (Q[i][j] * fix.A[j]) \div mov.A[i]]],
         b |-> [i \in 1..n |-> (p[i] - mov.b[i]) \div mov.A[i]] ]

\* MapPhysicalRASSpaceToAffine for a (n+1) x (n+1) matrix Qp:
\* A = solve(T_mov, Q * T_fix), b = solve(T_mov, p - s_mov + Q * s_fix)
MapPhysicalRASSpaceToAffine(n, level, nlevels, Qp) ==
    LET fix == VoxelSpaceToNiftiSpace(ReferenceSpace(n, level, nlevels))
        mov == VoxelSpaceToNiftiSpace(MovingReferenceSpace(n, level, nlevels))
        Q == [i \in 1..n |-> [j \in 1..n |-> Qp[i][j]]]
        p == [i \in 1..n |-> Qp[i][n + 1]]
        Qs == MatVec(Q, fix.b)
    IN [ A |-> [i \in 1..n |-> [j \in 1..n |-> (Q[i][j] * fix.A[j]) \div mov.A[i]]],
         b |-> [i \in 1..n |-> (p[i] - mov.b[i] + Qs[i]) \div mov.A[i]] ]

(***************************************************************************)
(* The kernels on displacement fields (LDDMMData). A field is the row of   *)
(* its voxels along axis 0, each a vector of whole numbers of 1/Fix voxel.  *)
(***************************************************************************)
\* the parts a voxel is divided into
Fix == 4

\* most voxels in a row
MaxVoxels == 3

ZeroVector(c) == [k \in 1..c |-> 0]

ZeroField(n, c) == [i \in 1..n |-> ZeroVector(c)]

VecAdd(a, b) == [k \in 1..Len(a) |-> a[k] + b[k]]

VecScale(a, num, den) == [k \in 1..Len(a) |-> (a[k] * num) \div den]

\* the largest whole number whose square is at most s
ISqrt(s) == CHOOSE r \in 0..s : r * r <= s /\ s < (r + 1) * (r + 1)

\* the Euclidean norm of a vector
Norm(a) == ISqrt(Dot(a, a))

\* the largest of the norms of the vectors of a field
MaxNorm(f) ==
    LET norms == {Norm(f[i]) : i \in 1..Len(f)}
    IN CHOOSE m \in norms : \A x \in norms : x <= m

\* a voxel index held inside the row (boundary replication)
Clamp(n, i) == IF i < 1 THEN 1 ELSE IF i > n THEN n ELSE i

\* the value of field src at position pos (in 1/Fix voxels from voxel 1)
\* along the row, by linear interpolation between the two voxels around it
Sample(src, pos) ==
    LET n == Len(src)
        lo == pos \div Fix
        w == pos % Fix
        a == src[Clamp(n, lo + 1)]
        b == src[Clamp(n, lo + 2)]
    IN [k \in 1..Len(a) |-> (a[k] * (Fix - w) + b[k] * w) \div Fix]

\* interp_vimg(src, field, 1.0, out): out(i) = src(i + field(i))
InterpField(src, field) ==
    [i \in 1..Len(field) |-> Sample(src, (i - 1) * Fix + field[i][1])]

\* vimg_add_in_place(trg, a): trg(i) + a(i)
AddInPlace(trg, a) == [i \in 1..Len(trg) |-> VecAdd(trg[i], a[i])]

\* vimg_multiply_in_place(trg, s): each vector times the value of the
\* scalar image s at its voxel
MultiplyInPlace(trg, img) == [i \in 1..Len(trg) |-> VecScale(trg[i], img[i], 1)]

\* vimg_smooth_withborder: the weights 1, 2, 1 over a voxel and its two
\* neighbours, the border voxels replicated
SmoothWithBorder(src) ==
    LET n == Len(src) IN
    [i \in 1..n |->
        VecScale(VecAdd(VecAdd(src[Clamp(n, i - 1)], src[i]),
                        VecAdd(src[i], src[Clamp(n, i + 1)])), 1, 4)]

\* vimg_normalize_to_fixed_max_length(trg, max_displacement, scale_down_only):
\* the field times max_displacement / M, M the largest norm; with
\* scale_down_only, only if M exceeds max_displacement. A field that is zero
\* everywhere has M = 0 and cannot be scaled to any length: it comes back
\* marked as not a number
NormalizeToFixedMaxLength(trg, max_displacement, scale_down_only) ==
    LET M == MaxNorm(trg) IN
    IF scale_down_only /\ M <= max_displacement THEN [field |-> trg, nan |-> FALSE]
    ELSE IF M = 0 THEN [field |-> trg, nan |-> TRUE]
    ELSE [field |-> [i \in 1..Len(trg) |-> VecScale(trg[i], max_displacement, M)],
          nan |-> FALSE]

(***************************************************************************)
(* AffineCostFunction: the scaled coefficient vector of a transform        *)
(***************************************************************************)
\* flatten_affine_transform: per axis i, offset_i then row i of the matrix
RECURSIVE FlattenRows(_, _, _)
FlattenRows(A, b, i) ==
    IF i > Len(A) THEN << >>
    ELSE <<b[i]>> \o A[i] \o FlattenRows(A, b, i + 1)

\* a flat array with the row of the matrix before the offset of the axis
flatten_matrix_first(tran) ==
    [k \in 1..(Len(tran.A) * (Len(tran.A) + 1)) |->
        LET i == (k - 1) \div (Len(tran.A) + 1)
            j == (k - 1) % (Len(tran.A) + 1)
        IN IF j < Len(tran.A) THEN tran.A[i + 1][j + 1] ELSE tran.b[i + 1]]

flatten_affine_transform(tran) == FlattenRows(tran.A, tran.b, 1)

\* unflatten_affine_transform, scaling 1
unflatten_affine_transform(x, n) ==
    [ A |-> [i \in 1..n |-> [j \in 1..n |-> x[(i - 1) * (n + 1) + 1 + j]]],
      b |-> [i \in 1..n |-> x[(i - 1) * (n + 1) + 1]] ]

\* the scaling of the constructor: offset 1, matrix(i, j) = size[j]
Scaling(n, level, nlevels) ==
    LET size == ReferenceSpace(n, level, nlevels).size IN
    flatten_affine_transform([A |-> [i \in 1..n |-> size], b |-> [i \in 1..n |-> 1]])

\* GetCoefficients: element_product(flatten(tran), scaling)
GetCoefficients(n, level, nlevels, tran) ==
    LET x == flatten_affine_transform(tran)
        sc == Scaling(n, level, nlevels)
    IN [k \in 1..Len(x) |-> x[k] * sc[k]]

\* GetTransform: unflatten(element_quotient(coeff, scaling))
GetTransform(n, level, nlevels, coeff) ==
    LET sc == Scaling(n, level, nlevels) IN
    unflatten_affine_transform([k \in 1..Len(coeff) |-> coeff[k] \div sc[k]], n)

(***************************************************************************)
(* ReadAffineMatrix                                                        *)
(***************************************************************************)
\* the matrices held by the affine files of the model: translations by
\* whole units, and their inverses
AffineFiles(n) ==
    { Homogeneous(IdentityMatrix(n), [i \in 1..n |-> c * Unit * i]) : c \in {1, -1} }

\* matrices with a linear part that is not the identity: a shear of axis 0
\* along axis 1 with an offset, and their inverses
ShearFiles(n) ==
    { Homogeneous([i \in 1..n |-> [j \in 1..n |->
                       IF i = j THEN 1 ELSE IF i = 1 /\ j = 2 THEN sh ELSE 0]],
                  [i \in 1..n |-> IF i = 1 THEN Fix ELSE IF i = 2 THEN 2 * sh * Fix ELSE 0]) :
        sh \in {1, -1} }

\* vnl_matrix_inverse of a matrix of AffineFiles or ShearFiles
MatrixInverse(M) ==
    CHOOSE N \in AffineFiles(Len(M) - 1) \cup ShearFiles(Len(M) - 1) :
        MatMul(M, N) = IdentityMatrix(Len(M))

\* ReadAffineMatrix(ts): the matrix of the file for exponent 1, its inverse
\* for exponent -1, and an exception for every other exponent
ReadAffineMatrix(ts) ==
    IF ts.exponent = 1 THEN [throws |-> FALSE, Qp |-> ts.matrix]
    ELSE IF ts.exponent = -1 THEN [throws |-> FALSE, Qp |-> MatrixInverse(ts.matrix)]
    ELSE [throws |-> TRUE, Qp |-> << >>]

(***************************************************************************)
(* The parameters a run starts from                                        *)
(***************************************************************************)
\* no -ia given: initial_affine.filename is empty
NoAffine == [filename |-> "", matrix |-> << >>, exponent |-> 1]

\* the -ia specs of the model
InitialAffines(n) ==
    {NoAffine} \cup
    { [filename |-> "ia.mat", matrix |-> M, exponent |-> e] :
          M \in AffineFiles(n), e \in Exponents }

RunParamDefault ==
    [ dim                 |-> 2,
      mode                |-> "GREEDY",
      metric              |-> "SSD",
      iter_per_level      |-> <<2, 2>>,
      initial_affine      |-> NoAffine,
      flag_debug_deriv    |-> FALSE,
      flag_dump_moving    |-> FALSE,
      dump_frequency      |-> 1,
      inverse_warp        |-> FALSE,
      brute_search_radius |-> << >>,
      metric_radius       |-> << >>,
      ref_image           |-> FALSE,
      images              |-> << >>,
      transforms          |-> << >>,
      moving_pre_transforms |-> << >>,
      time_step_mode      |-> "SCALE",
      gradient_mask       |-> "",
      epsilon             |-> Fix ]

\* -a runs: every schedule, with and without -ia and -debug-deriv
AffineParams ==
    UNION { { [RunParamDefault EXCEPT !.mode = "AFFINE", !.dim = n,
                                      !.iter_per_level = sch,
                                      !.initial_affine = ia,
                                      !.flag_debug_deriv = dbg] :
                 sch \in Schedules, ia \in InitialAffines(n), dbg \in BOOLEAN } :
            n \in {2, 3} }

(***************************************************************************)
(* ReadTransformChain                                                      *)
(***************************************************************************)
\* most transform specs in one chain
MaxChain == 2

\* the transform specs of the model: displacement-field images and matrix
\* files, each with every exponent
TransformSpecs ==
    { [filename |-> "warp.nii", image |-> TRUE, matrix |-> << >>, exponent |-> e] :
          e \in Exponents } \cup
    { [filename |-> "tran.mat", image |-> FALSE, matrix |-> M, exponent |-> e] :
          M \in {Homogeneous(IdentityMatrix(2), <<Unit, 2 * Unit>>)}, e \in Exponents }

TransformChains == UNION { [1..k -> TransformSpecs] : k \in 0..MaxChain }

\* the loop of ReadTransformChain from spec i on: an image file is composed
\* into out_warp as it is, a matrix file goes through ReadAffineMatrix
RECURSIVE ChainFrom(_, _, _)
ChainFrom(tran_chain, i, out_warp) ==
    IF i > Len(tran_chain) THEN [throws |-> FALSE, out_warp |-> out_warp]
    ELSE IF tran_chain[i].image
       THEN ChainFrom(tran_chain, i + 1,
                      Append(out_warp, [spec |-> tran_chain[i], Qp |-> << >>]))
       ELSE LET r == ReadAffineMatrix(tran_chain[i]) IN
            IF r.throws THEN [throws |-> TRUE, out_warp |-> out_warp]
            ELSE ChainFrom(tran_chain, i + 1,
                           Append(out_warp, [spec |-> tran_chain[i], Qp |-> r.Qp]))

ReadTransformChain(tran_chain) == ChainFrom(tran_chain, 1, << >>)

\* the pre-warp part of ReadImages: the -it chain is read if there is one
ReadImages ==
    IF Len(param.moving_pre_transforms) > 0
       THEN ReadTransformChain(param.moving_pre_transforms)
       ELSE [throws |-> FALSE, out_warp |-> << >>]

(***************************************************************************)
(* RunAffine                                                               *)
(***************************************************************************)
nlevels == Len(param.iter_per_level)

\* the transforms the optimizer may stop at
OptResults(n) == {MakeTransform(n, 1, 0, 2), MakeTransform(n, 2, 1, -1)}

\* the fixed jitter of vnl_random(12345), as a change of the transform
JitterOf(n) == MakeTransform(n, 0, 1, 1)

\* identity plus jitter: xInit = GetCoefficients(identity) + jitter, mapped
\* back by GetTransform
JitteredIdentity(n, level) ==
    LET x == GetCoefficients(n, level, nlevels, MakeTransform(n, 1, 0, 0))
        j == GetCoefficients(n, level, nlevels, JitterOf(n))
    IN GetTransform(n, level, nlevels, [k \in 1..Len(x) |-> x[k] + j[k]])

\* what a read of a 0 x 0 Q_physical may deliver when it does not crash
GarbageMatrices(n) ==
    { Homogeneous(IdentityMatrix(n), [i \in 1..n |-> 0]),
      Homogeneous(IdentityMatrix(n), [i \in 1..n |-> 3 * Unit]) }

AffineStart ==
    [ level |-> 0, Q_physical |-> << >>, tLevel |-> << >>, xLevel |-> << >>,
      tStart |-> << >>,    \* per level: the transform the level started from
      tEnd   |-> << >> ]   \* per level: the transform the level ended with

\* ReadImages and BuildCompositeImages succeed
AffineReadImages ==
    /\ pc = "run" /\ param.mode = "AFFINE"
    /\ ~ReadImages.throws
    /\ pc' = "aff_level"
    /\ aff' = AffineStart
    /\ UNCHANGED <<cl, param, out, hist, dfm, rs, files>>
    /\ UNCHANGED kernVars

\* a reader of ReadImages throws
AffineReadFails ==
    /\ pc = "run" /\ param.mode = "AFFINE"
    /\ pc' = "thrown"
    /\ UNCHANGED <<cl, param, out, hist, aff, dfm, rs, files>>
    /\ UNCHANGED kernVars

\* the state of RunAffine once the level's initial transform t is known:
\* xLevel, and with -debug-deriv Q_physical and the overwritten tLevel
AfterLevelStart(t, tAfterDebug) ==
    LET n == param.dim IN
    [aff EXCEPT
        !.xLevel = GetCoefficients(n, aff.level, nlevels, t),
        !.tStart = Append(@, t),
        !.tLevel = IF param.flag_debug_deriv THEN tAfterDebug ELSE t,
        !.Q_physical = IF param.flag_debug_deriv
                          THEN MapAffineToPhysicalRASSpace(n, aff.level, nlevels, t)
                          ELSE @]

\* level 0 with -ia: the matrix file, mapped to voxel units
AffineLevelFromFile ==
    /\ pc = "aff_level" /\ aff.level = 0
    /\ param.initial_affine.filename # ""
    /\ LET r == ReadAffineMatrix(param.initial_affine) IN
       IF r.throws
          THEN pc' = "thrown" /\ aff' = aff
          ELSE /\ pc' = "aff_min"
               /\ \E g \in OptResults(param.dim) :
                     aff' = AfterLevelStart(
                        MapPhysicalRASSpaceToAffine(param.dim, 0, nlevels, r.Qp), g)
    /\ UNCHANGED <<cl, param, out, hist, dfm, rs, files>>
    /\ UNCHANGED kernVars

\* level 0 without -ia: the jittered identity
AffineLevelFromJitter ==
    /\ pc = "aff_level" /\ aff.level = 0
    /\ param.initial_affine.filename = ""
    /\ pc' = "aff_min"
    /\ \E g \in OptResults(param.dim) :
          aff' = AfterLevelStart(JitteredIdentity(param.dim, 0), g)
    /\ UNCHANGED <<cl, param, out, hist, dfm, rs, files>>
    /\ UNCHANGED kernVars

\* level > 0: Q_physical mapped to the voxel units of this level
AffineLevelFromLast ==
    /\ pc = "aff_level" /\ aff.level > 0
    /\ aff.Q_physical # << >>
    /\ pc' = "aff_min"
    /\ \E g \in OptResults(param.dim) :
          aff' = AfterLevelStart(
             MapPhysicalRASSpaceToAffine(param.dim, aff.level, nlevels, aff.Q_physical), g)
    /\ UNCHANGED <<cl, param, out, hist, dfm, rs, files>>
    /\ UNCHANGED kernVars

\* level > 0 with Q_physical never assigned: MapPhysicalRASSpaceToAffine
\* reads Qp(i, j) of a 0 x 0 matrix, which is undefined: the process
\* crashes, or goes on with whatever the read delivers
AffineLevelFromEmpty ==
    /\ pc = "aff_level" /\ aff.level > 0
    /\ aff.Q_physical = << >>
    /\ \/ pc' = "crashed" /\ aff' = aff
       \/ /\ pc' = "aff_min"
          /\ \E Qp \in GarbageMatrices(param.dim), g \in OptResults(param.dim) :
                aff' = AfterLevelStart(
                   MapPhysicalRASSpaceToAffine(param.dim, aff.level, nlevels, Qp), g)
    /\ UNCHANGED <<cl, param, out, hist, dfm, rs, files>>
    /\ UNCHANGED kernVars

\* where RunAffine goes after level aff.level
AfterAffineLevel == IF aff.level + 1 < nlevels THEN "aff_level" ELSE "aff_write"

\* if(param.iter_per_level[level] > 0): the optimizer moves xLevel, and
\* Q_physical becomes the RAS matrix of the final transform
AffineMinimize ==
    /\ pc = "aff_min"
    /\ param.iter_per_level[aff.level + 1] > 0
    /\ \E t \in OptResults(param.dim)
                  \cup {GetTransform(param.dim, aff.level, nlevels, aff.xLevel)} :
          LET x == GetCoefficients(param.dim, aff.level, nlevels, t)
              tFinal == GetTransform(param.dim, aff.level, nlevels, x)
          IN aff' = [aff EXCEPT
                        !.xLevel = x,
                        !.Q_physical = MapAffineToPhysicalRASSpace(
                                           param.dim, aff.level, nlevels, tFinal),
                        !.tEnd = Append(@, tFinal),
                        !.level = @ + 1]
    /\ pc' = AfterAffineLevel
    /\ UNCHANGED <<cl, param, out, hist, dfm, rs, files>>
    /\ UNCHANGED kernVars

\* a level whose count is not positive: no optimizer, and Q_physical is left
\* as it is
AffineSkipMinimize ==
    /\ pc = "aff_min"
    /\ ~(param.iter_per_level[aff.level + 1] > 0)
    /\ aff' = [aff EXCEPT
                  !.tEnd = Append(@, GetTransform(param.dim, aff.level, nlevels, aff.xLevel)),
                  !.level = @ + 1]
    /\ pc' = AfterAffineLevel
    /\ UNCHANGED <<cl, param, out, hist, dfm, rs, files>>
    /\ UNCHANGED kernVars

\* matrixFile << Q_physical
AffineWrite ==
    /\ pc = "aff_write"
    /\ files' = Append(files, [name |-> "output", unit |-> 0, content |-> aff.Q_physical])
    /\ pc' = "done"
    /\ UNCHANGED <<cl, param, out, hist, aff, dfm, rs>>
    /\ UNCHANGED kernVars

(***************************************************************************)
(* RunDeformable                                                           *)
(***************************************************************************)
\* most iterations of one level the model follows
MaxIterRun == 3

\* most pixels of a label image
MaxPixels == 3

\* the cap on distinct labels in RunReslice
MaxLabelCount == 1000

\* an int converted to unsigned int (32 bits), as the pair of its 16-bit
\* halves <<high, low>>
ToUnsigned(k) ==
    IF k >= 0
       THEN <<k \div Pow2(16), k % Pow2(16)>>
       ELSE LET m == -(k + 1) IN
            <<Pow2(16) - 1 - (m \div Pow2(16)), Pow2(16) - 1 - (m % Pow2(16))>>

\* a < b on unsigned int
UnsignedLess(a, b) == a[1] < b[1] \/ (a[1] = b[1] /\ a[2] < b[2])

\* the loop test iter < param.iter_per_level[level]: iter is unsigned, so
\* the count is converted to unsigned before the comparison
IterLoopTest(iter, count) == UnsignedLess(ToUnsigned(iter), ToUnsigned(count))

\* -d, schedule, -ia, -dump-moving and -oinv of the deformable runs
DeformParams ==
    { [RunParamDefault EXCEPT !.mode = "GREEDY", !.iter_per_level = sch,
                              !.initial_affine = ia, !.flag_dump_moving = dump,
                              !.inverse_warp = inv] :
          sch \in Schedules, ia \in InitialAffines(2), dump \in BOOLEAN,
          inv \in BOOLEAN } \cup
    { [RunParamDefault EXCEPT !.mode = "GREEDY", !.moving_pre_transforms = ch] :
          ch \in TransformChains }

DeformStart ==
    [ level |-> 0, iter |-> 0,
      uLevel |-> << >>,     \* << >> is the NULL pointer
      uk |-> << >>,         \* the field, as the operations that built it
      itersRun |-> << >>,   \* per finished level: the iterations it ran
      moving_pre_warp |-> << >> ]

\* ReadImages and BuildCompositeImages succeed
DeformReadImages ==
    /\ pc = "run" /\ param.mode = "GREEDY"
    /\ ~ReadImages.throws
    /\ pc' = "def_level"
    /\ dfm' = [DeformStart EXCEPT !.moving_pre_warp = ReadImages.out_warp]
    /\ UNCHANGED <<cl, param, out, hist, aff, rs, files>>
    /\ UNCHANGED kernVars

\* a reader of ReadImages throws
DeformReadFails ==
    /\ pc = "run" /\ param.mode = "GREEDY"
    /\ pc' = "thrown"
    /\ UNCHANGED <<cl, param, out, hist, aff, dfm, rs, files>>
    /\ UNCHANGED kernVars

\* the head of a level if the -ia matrix were looked at before uLevel
DeformLevelStartAffineFirst ==
    /\ pc = "def_level"
    /\ IF param.initial_affine.filename # ""
          THEN IF ReadAffineMatrix(param.initial_affine).throws
                  THEN pc' = "thrown" /\ dfm' = dfm
                  ELSE /\ dfm' = [dfm EXCEPT !.uk = <<"affine">>,
                                             !.uLevel = <<"affine">>,
                                             !.iter = 0]
                       /\ pc' = "def_iter"
          ELSE IF dfm.uLevel # << >>
                  THEN /\ dfm' = [dfm EXCEPT !.uk = dfm.uLevel \o <<"resample", "scale2">>,
                                             !.uLevel = dfm.uLevel \o <<"resample", "scale2">>,
                                             !.iter = 0]
                       /\ pc' = "def_iter"
                  ELSE /\ dfm' = [dfm EXCEPT !.uk = <<"zero">>, !.iter = 0]
                       /\ pc' = "def_iter"
    /\ UNCHANGED <<cl, param, out, hist, aff, rs, files>>
    /\ UNCHANGED kernVars

\* the head of a level: uk from the last level (resampled, times 2), from
\* the -ia matrix, or zero
DeformLevelStart ==
    /\ pc = "def_level"
    /\ IF dfm.uLevel # << >>
          THEN /\ dfm' = [dfm EXCEPT !.uk = dfm.uLevel \o <<"resample", "scale2">>,
                                     !.uLevel = dfm.uLevel \o <<"resample", "scale2">>,
                                     !.iter = 0]
               /\ pc' = "def_iter"
          ELSE IF param.initial_affine.filename # ""
                  THEN IF ReadAffineMatrix(param.initial_affine).throws
                          THEN pc' = "thrown" /\ dfm' = dfm
                          ELSE /\ dfm' = [dfm EXCEPT !.uk = <<"affine">>,
                                                     !.uLevel = <<"affine">>,
                                                     !.iter = 0]
                               /\ pc' = "def_iter"
                  ELSE /\ dfm' = [dfm EXCEPT !.uk = <<"zero">>, !.iter = 0]
                       /\ pc' = "def_iter"
    /\ UNCHANGED <<cl, param, out, hist, aff, rs, files>>
    /\ UNCHANGED kernVars

\* the dump files one iteration writes with -dump-moving
DumpFiles(level, iter) ==
    IF param.flag_dump_moving /\ iter % param.dump_frequency = 0
       THEN << [name |-> "dump_gradient", unit |-> level, content |-> << >>],
               [name |-> "dump_optflow", unit |-> level, content |-> << >>],
               [name |-> "dump_uk1", unit |-> level, content |-> << >>] >>
       ELSE << >>

\* one pass of the iteration loop
DeformIterate ==
    /\ pc = "def_iter"
    /\ dfm.iter < MaxIterRun
    /\ IterLoopTest(dfm.iter, param.iter_per_level[dfm.level + 1])
    /\ dfm' = [dfm EXCEPT !.uk = Append(@, "update"), !.iter = @ + 1]
    /\ files' = files \o DumpFiles(dfm.level, dfm.iter)
    /\ UNCHANGED <<pc, cl, param, out, hist, aff, rs>>
    /\ UNCHANGED kernVars

\* a filter or a dump write of the iteration throws
DeformIterateFails ==
    /\ pc = "def_iter"
    /\ dfm.iter < MaxIterRun
    /\ IterLoopTest(dfm.iter, param.iter_per_level[dfm.level + 1])
    /\ pc' = "thrown"
    /\ UNCHANGED <<cl, param, out, hist, aff, dfm, rs, files>>
    /\ UNCHANGED kernVars

\* the loop test fails: uLevel = uk, and the next level or the write
DeformLevelEnd ==
    /\ pc = "def_iter"
    /\ ~IterLoopTest(dfm.iter, param.iter_per_level[dfm.level + 1])
    /\ dfm' = [dfm EXCEPT !.uLevel = dfm.uk,
                          !.itersRun = Append(@, dfm.iter),
                          !.level = @ + 1]
    /\ pc' = IF dfm.level + 1 < nlevels THEN "def_level" ELSE "def_write"
    /\ UNCHANGED <<cl, param, out, hist, aff, rs, files>>
    /\ UNCHANGED kernVars

\* WriteCompressedWarpInPhysicalSpace of the final field to -o
DeformWriteWarp ==
    /\ pc = "def_write"
    /\ files' = Append(files, [name |-> "output", unit |-> nlevels, content |-> dfm.uLevel])
    /\ pc' = IF param.inverse_warp THEN "def_inverse" ELSE "done"
    /\ UNCHANGED <<cl, param, out, hist, aff, dfm, rs>>
    /\ UNCHANGED kernVars

\* the inverse is computed and written to -oinv
DeformWriteInverse ==
    /\ pc = "def_inverse"
    /\ files' = Append(files, [name |-> "inverse", unit |-> nlevels,
                              content |-> Append(dfm.uLevel, "inverse")])
    /\ pc' = "done"
    /\ UNCHANGED <<cl, param, out, hist, aff, dfm, rs>>
    /\ UNCHANGED kernVars

\* a write of the warp or of the inverse throws
DeformWriteFails ==
    /\ pc \in {"def_write", "def_inverse"}
    /\ pc' = "thrown"
    /\ UNCHANGED <<cl, param, out, hist, aff, dfm, rs, files>>
    /\ UNCHANGED kernVars

(***************************************************************************)
(* RunBrute                                                                *)
(***************************************************************************)
BruteParams ==
    { [RunParamDefault EXCEPT !.mode = "BRUTE", !.dim = n, !.metric = m,
                              !.metric_radius = IF m = "NCC" THEN mr ELSE << >>,
                              !.brute_search_radius = br] :
          n \in {2, 3}, m \in {"SSD", "NCC", "MI"}, mr \in RadiusVectors,
          br \in RadiusVectors }

\* the checks at the head of RunBrute fail: an error line and return -1
BruteRejects ==
    /\ pc = "run" /\ param.mode = "BRUTE"
    /\ BruteCheck(param) # "ok"
    /\ pc' = "rejected"
    /\ UNCHANGED <<cl, param, out, hist, aff, dfm, rs, files>>
    /\ UNCHANGED kernVars

\* ReadImages, BuildCompositeImages and the search over all offsets
BruteSearch ==
    /\ pc = "run" /\ param.mode = "BRUTE"
    /\ BruteCheck(param) = "ok"
    /\ ~ReadImages.throws
    /\ pc' = "brute_write"
    /\ UNCHANGED <<cl, param, out, hist, aff, dfm, rs, files>>
    /\ UNCHANGED kernVars

\* a reader of ReadImages throws
BruteReadFails ==
    /\ pc = "run" /\ param.mode = "BRUTE"
    /\ BruteCheck(param) = "ok"
    /\ pc' = "thrown"
    /\ UNCHANGED <<cl, param, out, hist, aff, dfm, rs, files>>
    /\ UNCHANGED kernVars

\* vimg_write(u_best, output)
BruteWriteOutput ==
    /\ pc = "brute_write"
    /\ files' = Append(files, [name |-> "output", unit |-> 0, content |-> << >>])
    /\ pc' = "brute_write_mbest"
    /\ UNCHANGED <<cl, param, out, hist, aff, dfm, rs>>
    /\ UNCHANGED kernVars

\* img_write(m_best, "mbest.nii.gz")
BruteWriteMbest ==
    /\ pc = "brute_write_mbest"
    /\ files' = Append(files, [name |-> "mbest.nii.gz", unit |-> 0, content |-> << >>])
    /\ pc' = "done"
    /\ UNCHANGED <<cl, param, out, hist, aff, dfm, rs>>
    /\ UNCHANGED kernVars

\* one of the two writes throws
BruteWriteFails ==
    /\ pc \in {"brute_write", "brute_write_mbest"}
    /\ pc' = "thrown"
    /\ UNCHANGED <<cl, param, out, hist, aff, dfm, rs, files>>
    /\ UNCHANGED kernVars

(***************************************************************************)
(* RunReslice                                                              *)
(***************************************************************************)
\* the values of the pixels of a label image (short)
PixelValues == {-1, 0, 1}

LabelImages == UNION { [1..k -> PixelValues] : k \in 1..MaxPixels }

\* the scan of the pixels from j on for the image at position i of the -rm
\* list: std::set<short> label_set, short last_pixel
RECURSIVE ScanLabels(_, _, _, _, _)
ScanLabels(labels, i, j, last_pixel, label_set) ==
    IF j >= Len(labels) THEN [throws |-> FALSE, label_set |-> label_set]
    ELSE LET pixel == labels[j + 1] IN
         IF last_pixel # pixel \/ i = 0
            THEN IF Cardinality(label_set \cup {pixel}) > MaxLabelCount
                    THEN [throws |-> TRUE, label_set |-> label_set \cup {pixel}]
                    ELSE ScanLabels(labels, i, j + 1, pixel, label_set \cup {pixel})
            ELSE ScanLabels(labels, i, j + 1, last_pixel, label_set)

\* std::vector<short> label_array(label_set.begin(), label_set.end()): the
\* elements of the set in ascending order
RECURSIVE LabelArray(_)
LabelArray(label_set) ==
    IF label_set = {} THEN << >>
    ELSE LET least == CHOOSE x \in label_set : \A y \in label_set : x <= y
         IN <<least>> \o LabelArray(label_set \ {least})

\* the -rm entries of the model
ResliceSpecs ==
    { [interp |-> [mode |-> md, sigma |-> 1]] : md \in {"NEAREST", "LINEAR", "LABELWISE"} }

ResliceParams ==
    { [RunParamDefault EXCEPT !.mode = "RESLICE", !.ref_image = TRUE,
                              !.images = imgs] :
          imgs \in UNION { [1..k -> ResliceSpecs] : k \in 0..MaxImages } } \cup
    { [RunParamDefault EXCEPT !.mode = "RESLICE", !.ref_image = TRUE,
                              !.images = <<[interp |-> InterpSpecDefault]>>,
                              !.transforms = ch] :
          ch \in TransformChains } \cup
    { [RunParamDefault EXCEPT !.mode = "RESLICE",
                              !.images = <<[interp |-> InterpSpecDefault]>>] }

ResliceStart ==
    [ i |-> 0, warp |-> << >>, moving |-> << >>, label_array |-> << >>,
      labelwise |-> FALSE ]

\* one of the two checks at the head of RunReslice throws
ResliceCheckFails ==
    /\ pc = "run" /\ param.mode = "RESLICE"
    /\ ~ResliceCheck(param)
    /\ pc' = "thrown"
    /\ UNCHANGED <<cl, param, out, hist, aff, dfm, rs, files>>
    /\ UNCHANGED kernVars

\* img_read of the reference image
ResliceReadRef ==
    /\ pc = "run" /\ param.mode = "RESLICE"
    /\ ResliceCheck(param)
    /\ pc' = "rs_chain"
    /\ rs' = ResliceStart
    /\ UNCHANGED <<cl, param, out, hist, aff, dfm, files>>
    /\ UNCHANGED kernVars

\* img_read of the reference image throws
ResliceReadRefFails ==
    /\ pc = "run" /\ param.mode = "RESLICE"
    /\ ResliceCheck(param)
    /\ pc' = "thrown"
    /\ UNCHANGED <<cl, param, out, hist, aff, dfm, rs, files>>
    /\ UNCHANGED kernVars

\* ReadTransformChain(param.reslice_param.transforms, ref_space, warp)
ResliceReadChain ==
    /\ pc = "rs_chain"
    /\ LET r == ReadTransformChain(param.transforms) IN
          /\ rs' = [rs EXCEPT !.warp = r.out_warp]
          /\ pc' = IF r.throws THEN "thrown" ELSE "rs_image"
    /\ UNCHANGED <<cl, param, out, hist, aff, dfm, files>>
    /\ UNCHANGED kernVars

\* vimg_read of a warp of the chain throws
ResliceReadChainFails ==
    /\ pc = "rs_chain"
    /\ \E k \in 1..Len(param.transforms) : param.transforms[k].image
    /\ pc' = "thrown"
    /\ UNCHANGED <<cl, param, out, hist, aff, dfm, rs, files>>
    /\ UNCHANGED kernVars

\* a LABELWISE image: read, scan of the labels, the voting pipeline
ResliceLabelImage ==
    /\ pc = "rs_image" /\ rs.i < Len(param.images)
    /\ param.images[rs.i + 1].interp.mode = "LABELWISE"
    /\ \E labels \in LabelImages :
          LET r == ScanLabels(labels, rs.i, 0, 0, {}) IN
             /\ rs' = [rs EXCEPT !.moving = labels, !.labelwise = TRUE,
                                 !.label_array = LabelArray(r.label_set)]
             /\ pc' = IF r.throws THEN "thrown" ELSE "rs_write"
    /\ UNCHANGED <<cl, param, out, hist, aff, dfm, files>>
    /\ UNCHANGED kernVars

\* every other image: cimg_read and interp_cimg
ResliceOtherImage ==
    /\ pc = "rs_image" /\ rs.i < Len(param.images)
    /\ param.images[rs.i + 1].interp.mode # "LABELWISE"
    /\ rs' = [rs EXCEPT !.moving = << >>, !.label_array = << >>, !.labelwise = FALSE]
    /\ pc' = "rs_write"
    /\ UNCHANGED <<cl, param, out, hist, aff, dfm, files>>
    /\ UNCHANGED kernVars

\* the reader or a filter of the image throws
ResliceImageFails ==
    /\ pc = "rs_image" /\ rs.i < Len(param.images)
    /\ pc' = "thrown"
    /\ UNCHANGED <<cl, param, out, hist, aff, dfm, rs, files>>
    /\ UNCHANGED kernVars

\* the output of image i is written, and the loop moves on
ResliceWrite ==
    /\ pc = "rs_write"
    /\ files' = Append(files, [name |-> "resliced", unit |-> rs.i, content |-> rs.label_array])
    /\ rs' = [rs EXCEPT !.i = @ + 1]
    /\ pc' = "rs_image"
    /\ UNCHANGED <<cl, param, out, hist, aff, dfm>>
    /\ UNCHANGED kernVars

\* the writer throws
ResliceWriteFails ==
    /\ pc = "rs_write"
    /\ pc' = "thrown"
    /\ UNCHANGED <<cl, param, out, hist, aff, dfm, rs, files>>
    /\ UNCHANGED kernVars

\* the loop over the images ends: return 0
ResliceDone ==
    /\ pc = "rs_image" /\ rs.i = Len(param.images)
    /\ pc' = "done"
    /\ UNCHANGED <<cl, param, out, hist, aff, dfm, rs, files>>
    /\ UNCHANGED kernVars

(***************************************************************************)
(* The runs of GreedyApproach::Run, from the parameters on                 *)
(***************************************************************************)
RunParams == AffineParams \cup DeformParams \cup BruteParams \cup ResliceParams

RunInit ==
    /\ pc = "run"
    /\ cl = [argc |-> MaxArgc, i |-> MaxArgc]
    /\ param \in RunParams
    /\ out = OutDefault
    /\ hist = HistDefault
    /\ aff = << >> /\ dfm = << >> /\ rs = << >> /\ files = << >>
    /\ itr = << >> /\ chn = << >> /\ rdm = << >> /\ cnv = << >> /\ use = << >>

RunNext ==
    \/ AffineReadImages \/ AffineReadFails
    \/ AffineLevelFromFile \/ AffineLevelFromJitter
    \/ AffineLevelFromLast \/ AffineLevelFromEmpty
    \/ AffineMinimize \/ AffineSkipMinimize \/ AffineWrite
    \/ DeformReadImages \/ DeformReadFails \/ DeformLevelStart
    \/ DeformIterate \/ DeformIterateFails \/ DeformLevelEnd
    \/ DeformWriteWarp \/ DeformWriteInverse \/ DeformWriteFails
    \/ BruteRejects \/ BruteSearch \/ BruteReadFails
    \/ BruteWriteOutput \/ BruteWriteMbest \/ BruteWriteFails
    \/ ResliceCheckFails \/ ResliceReadRef \/ ResliceReadRefFails
    \/ ResliceReadChain \/ ResliceReadChainFails
    \/ ResliceLabelImage \/ ResliceOtherImage \/ ResliceImageFails
    \/ ResliceWrite \/ ResliceWriteFails \/ ResliceDone

SpecRun == RunInit /\ [][RunNext]_vars

(***************************************************************************)
(* Properties of the runs                                                  *)
(***************************************************************************)
InAffine == param.mode = "AFFINE" /\ aff # << >>

\* the RAS re-conversion at level l (counted from 1) of the transform that
\* the level before it ended with
Reconverted(l) ==
    MapPhysicalRASSpaceToAffine(param.dim, l - 1, nlevels,
        MapAffineToPhysicalRASSpace(param.dim, l - 2, nlevels, aff.tEnd[l - 1]))

\* C2: in affine mode every level after the first starts from the RAS
\* re-conversion of the transform the level before it ended with, and a
\* level that ran no optimizer iteration ends with the transform it started
\* from; the run never reads a matrix that was not assigned.
C2_LevelStartsFromLastLevel ==
    InAffine =>
        /\ pc # "crashed"
        /\ \A l \in 2..Len(aff.tStart) : aff.tStart[l] = Reconverted(l)
        /\ \A l \in 1..Len(aff.tEnd) :
              ~(param.iter_per_level[l] > 0) => aff.tEnd[l] = aff.tStart[l]

\* C3: the matrix affine mode writes to the -o file has D+1 rows and D+1
\* columns, whatever the schedule.
C3_OutputIsHomogeneous ==
    (param.mode = "AFFINE" /\ pc = "done") =>
        \A k \in 1..Len(files) :
            files[k].name = "output" =>
                /\ Rows(files[k].content) = param.dim + 1
                /\ Cols(files[k].content) = param.dim + 1

\* the round trip through the coefficients and the one through RAS are
\* exact on every transform a level starts from
AffineRoundTrips ==
    InAffine =>
        \A l \in 1..Len(aff.tStart) :
            LET t == aff.tStart[l] IN
            /\ GetTransform(param.dim, l - 1, nlevels,
                            GetCoefficients(param.dim, l - 1, nlevels, t)) = t
            /\ MapPhysicalRASSpaceToAffine(param.dim, l - 1, nlevels,
                   MapAffineToPhysicalRASSpace(param.dim, l - 1, nlevels, t)) = t

\* the ascending sequence of all distinct values of the pixels
IsLabelArrayOf(arr, pixels) ==
    /\ \A k \in 1..(Len(arr) - 1) : arr[k] < arr[k + 1]
    /\ {arr[k] : k \in 1..Len(arr)} = {pixels[k] : k \in 1..Len(pixels)}

\* C1: for a label image at any position of the -rm list, the label array
\* the scan builds is the ascending sequence of the distinct pixel values of
\* the image, none missing.
C1_LabelArrayIsDistinctValues ==
    (pc = "rs_write" /\ rs.labelwise) => IsLabelArrayOf(rs.label_array, rs.moving)

\* every transform spec composed so far into a chain of the run
Composed ==
    (IF rs = << >> THEN {} ELSE {rs.warp[k].spec : k \in 1..Len(rs.warp)}) \cup
    (IF dfm = << >> THEN {}
     ELSE {dfm.moving_pre_warp[k].spec : k \in 1..Len(dfm.moving_pre_warp)})

\* every transform spec given to -r or -it
Given ==
    {param.transforms[k] : k \in 1..Len(param.transforms)} \cup
    {param.moving_pre_transforms[k] : k \in 1..Len(param.moving_pre_transforms)}

\* C4: a transform spec whose exponent is neither +1 nor -1 is never
\* composed into a chain, matrix file or warp image alike, and a run that was
\* given one does not end without an error.
C4_BadExponentRejected ==
    /\ \A ts \in Composed : ts.exponent \in {1, -1}
    /\ pc = "done" => \A ts \in Given : ts.exponent \in {1, -1}

\* max(n, 0)
Budget(count) == IF count > 0 THEN count ELSE 0

\* C8: the deformable solver never runs more than max(n_l, 0) iterations
\* at level l, a finished level has run exactly max(n_l, 0), and the warp
\* is written only after all the levels, in order.
C8_IterationsWithinBudget ==
    (param.mode = "GREEDY" /\ dfm # << >>) =>
        /\ pc = "def_iter" => dfm.iter <= Budget(param.iter_per_level[dfm.level + 1])
        /\ \A l \in 1..Len(dfm.itersRun) :
              dfm.itersRun[l] = Budget(param.iter_per_level[l])
        /\ pc \in {"def_write", "def_inverse", "done"} => Len(dfm.itersRun) = nlevels

\* the files of the run that are results (the -dump-moving files left out)
OutputFilesWritten ==
    {k \in 1..Len(files) :
        files[k].name \in {"output", "inverse", "mbest.nii.gz", "resliced"}}

\* C9: a run that ends with an error, in any mode, has written no output
\* file.
C9_NoOutputOnError == pc = "thrown" => OutputFilesWritten = {}

(***************************************************************************)
(* The conversions between voxel space and RAS, each applied to the        *)
(* result of the other                                                     *)
(***************************************************************************)
\* the voxel-space transforms (A, b) converted
ConvTransforms(n) ==
    { MakeTransform(n, d, o, c) : d \in {1, 2}, o \in {0, -1}, c \in {0, 1, -3} }

\* the RAS matrices converted: offsets in whole units
ConvMatrices(n) ==
    { Homogeneous(MakeTransform(n, d, o, 0).A, [i \in 1..n |-> c * Unit * i]) :
          d \in {1, 2}, o \in {0, -1}, c \in {0, 1, -3} }

ConvInit ==
    /\ pc = "cnv_start"
    /\ cl = [argc |-> MaxArgc, i |-> MaxArgc]
    /\ param = RunParamDefault
    /\ out = OutDefault
    /\ hist = HistDefault
    /\ aff = << >> /\ dfm = << >> /\ rs = << >> /\ files = << >>
    /\ itr = << >> /\ chn = << >> /\ rdm = << >> /\ use = << >>
    /\ cnv \in UNION { UNION { [ n : {n}, nlevels : {nl}, level : 0..(nl - 1),
                                 tran : ConvTransforms(n), Q : ConvMatrices(n),
                                 Qp : {<< >>}, tranBack : {<< >>},
                                 tQ : {<< >>}, QBack : {<< >>} ] :
                               nl \in 1..MaxLevels } : n \in {2, 3} }

\* Qp = MapAffineToPhysicalRASSpace(of_helper, level, tran)
ConvToRas ==
    /\ pc = "cnv_start"
    /\ cnv' = [cnv EXCEPT !.Qp = MapAffineToPhysicalRASSpace(
                                     cnv.n, cnv.level, cnv.nlevels, cnv.tran)]
    /\ pc' = "cnv_ras"
    /\ UNCHANGED <<cl, param, out, hist, aff, dfm, rs, files, use, itr, chn, rdm>>

\* MapPhysicalRASSpaceToAffine(of_helper, level, Qp, tranBack)
ConvBackToVoxel ==
    /\ pc = "cnv_ras"
    /\ cnv' = [cnv EXCEPT !.tranBack = MapPhysicalRASSpaceToAffine(
                                           cnv.n, cnv.level, cnv.nlevels, cnv.Qp)]
    /\ pc' = "cnv_back"
    /\ UNCHANGED <<cl, param, out, hist, aff, dfm, rs, files, use, itr, chn, rdm>>

\* MapPhysicalRASSpaceToAffine(of_helper, level, Q, tQ)
ConvToVoxel ==
    /\ pc = "cnv_back"
    /\ cnv' = [cnv EXCEPT !.tQ = MapPhysicalRASSpaceToAffine(
                                     cnv.n, cnv.level, cnv.nlevels, cnv.Q)]
    /\ pc' = "cnv_voxel"
    /\ UNCHANGED <<cl, param, out, hist, aff, dfm, rs, files, use, itr, chn, rdm>>

\* QBack = MapAffineToPhysicalRASSpace(of_helper, level, tQ)
ConvBackToRas ==
    /\ pc = "cnv_voxel"
    /\ cnv' = [cnv EXCEPT !.QBack = MapAffineToPhysicalRASSpace(
                                        cnv.n, cnv.level, cnv.nlevels, cnv.tQ)]
    /\ pc' = "cnv_done"
    /\ UNCHANGED <<cl, param, out, hist, aff, dfm, rs, files, use, itr, chn, rdm>>

ConvNext == ConvToRas \/ ConvBackToVoxel \/ ConvToVoxel \/ ConvBackToRas

SpecConv == ConvInit /\ [][ConvNext]_vars

MaxMissing == 2

\* what the uninitialized memory of Qp(VDim+1, VDim+1) may hold
GarbageValues == {0, 77}

FlatIndex(n, r, c) == r * (n + 1) + c + 1

\* the matrix of a flat array of (n+1) * (n+1) entries
Unflat(n, flat) == [i \in 1..(n + 1) |-> [j \in 1..(n + 1) |-> flat[FlatIndex(n, i - 1, j - 1)]]]

\* Qp.set_identity()
FlatIdentity(n) ==
    [k \in 1..((n + 1) * (n + 1)) |->
        IF (k - 1) \div (n + 1) = (k - 1) % (n + 1) THEN 1 ELSE 0]

\* Qp(r, c) = v for c within the row; an element behind the end of the row
\* is undefined: with alias the write lands in the storage that follows the
\* row, if there is any, and is lost otherwise
FlatSet(n, flat, r, c, v, alias) ==
    IF c <= n THEN [flat EXCEPT ![FlatIndex(n, r, c)] = v]
    ELSE IF alias /\ FlatIndex(n, r, c) <= Len(flat)
         THEN [flat EXCEPT ![FlatIndex(n, r, c)] = v]
         ELSE flat

\* the loop over the rows of the ITK branch from row r on: the matrix into
\* the columns 0..VDim-1, the offset into the column of index 3
RECURSIVE ItkRows(_, _, _, _, _)
ItkRows(n, flat, tr, r, alias) ==
    IF r >= n THEN flat
    ELSE LET row == [k \in 1..Len(flat) |->
                        IF (k - 1) \div (n + 1) = r /\ (k - 1) % (n + 1) < n
                           THEN tr.A[r + 1][((k - 1) % (n + 1)) + 1] ELSE flat[k]]
         IN ItkRows(n, FlatSet(n, row, r, 3, tr.b[r + 1], alias), tr, r + 1, alias)

\* the sign changes of the ITK branch: if(VDim == 3) Qp(2,0), Qp(2,1),
\* Qp(0,2), Qp(1,2), Qp(0,3), Qp(1,3) *= -1
RasFlips == {<<2, 0>>, <<2, 1>>, <<0, 2>>, <<1, 2>>, <<0, 3>>, <<1, 3>>}

FlipToRas(n, flat) ==
    IF n = 3
       THEN [k \in 1..Len(flat) |->
                IF <<(k - 1) \div (n + 1), (k - 1) % (n + 1)>> \in RasFlips
                   THEN -flat[k] ELSE flat[k]]
       ELSE flat

\* the ITK transform files: a MatrixOffsetTransformBase of dimension tdim,
\* or a file the transform reader cannot read
ItkFiles ==
    { [kind |-> "itk", broken |-> FALSE, tdim |-> td, tran |-> MakeTransform(td, d, o, 5),
       tokens |-> << >>] : td \in {2, 3, 4}, d \in {1, 2}, o \in {0, 3} } \cup
    { [kind |-> "itk", broken |-> TRUE, tdim |-> 3, tran |-> MakeTransform(3, 1, 0, 5),
       tokens |-> << >>] }

\* the tokens of a plain file: numbers, and words that are not numbers
Number(v) == [ok |-> TRUE, v |-> v]

NotANumber == [ok |-> FALSE, v |-> 0]

\* the plain files for dimension n: the full matrix, the matrix with its
\* last numbers missing, and the matrix with a word in place of a number
PlainFiles(n) ==
    LET full == [k \in 1..((n + 1) * (n + 1)) |-> Number(10 + k)] IN
    { [kind |-> "plain", broken |-> FALSE, tdim |-> n, tran |-> MakeTransform(n, 1, 0, 0),
       tokens |-> SubSeq(full, 1, Len(full) - missing)] : missing \in 0..MaxMissing } \cup
    { [kind |-> "plain", broken |-> FALSE, tdim |-> n, tran |-> MakeTransform(n, 1, 0, 0),
       tokens |-> [full EXCEPT ![at] = NotANumber]] : at \in {1, n + 2, Len(full)} } \cup
    { [kind |-> "plain", broken |-> FALSE, tdim |-> n, tran |-> MakeTransform(n, 1, 0, 0),
       tokens |-> << >>] }

ReadInit ==
    /\ pc = "rdm_header"
    /\ cl = [argc |-> MaxArgc, i |-> MaxArgc]
    /\ param = RunParamDefault
    /\ out = OutDefault
    /\ hist = HistDefault
    /\ aff = << >> /\ dfm = << >> /\ rs = << >> /\ files = << >>
    /\ itr = << >> /\ chn = << >> /\ cnv = << >> /\ use = << >>
    /\ rdm \in UNION { [ dim : {n}, file : ItkFiles \cup PlainFiles(n),
                         exponent : {1, 2},
                         Qp : { [k \in 1..((n + 1) * (n + 1)) |-> g] : g \in GarbageValues },
                         read : {{}},          \* the entries assigned so far
                         outside : {FALSE},    \* an element outside Qp was written
                         k : {0}, tok : {1}, good : {TRUE},
                         std11 : BOOLEAN,      \* a failed >> stores 0 (C++11)
                         result : {<< >>} ] : n \in {2, 3, 4} }

AllEntries(n) == 1..((n + 1) * (n + 1))

\* the header line is the ITK one: the transform reader, set_identity, the
\* copy of matrix and offset if the transform has the dimension VDim, and
\* the sign changes; catch(...) turns every exception into GreedyException
ReadItkBranch ==
    /\ pc = "rdm_header" /\ rdm.file.kind = "itk"
    /\ IF rdm.file.broken
          THEN pc' = "thrown" /\ rdm' = rdm
          ELSE LET n == rdm.dim
                   motb == rdm.file.tdim = n
               IN \/ /\ pc' = "rdm_exponent"
                     /\ \E alias \in BOOLEAN :
                           rdm' = [rdm EXCEPT
                              !.Qp = IF motb
                                        THEN FlipToRas(n, ItkRows(n, FlatIdentity(n),
                                                                  rdm.file.tran, 0, alias))
                                        ELSE FlatIdentity(n),
                              !.read = AllEntries(n),
                              !.outside = motb /\ 3 > n]
                  \/ /\ motb /\ 3 > n
                     /\ pc' = "crashed"
                     /\ rdm' = [rdm EXCEPT !.outside = TRUE]
    /\ UNCHANGED <<cl, param, out, hist, aff, dfm, rs, files, use, itr, chn, cnv>>

\* any other header line: fin.seekg(0) and the loop over the entries
ReadPlainBranch ==
    /\ pc = "rdm_header" /\ rdm.file.kind = "plain"
    /\ pc' = "rdm_plain"
    /\ UNCHANGED <<cl, param, out, hist, aff, dfm, rs, files, use, itr, chn, rdm, cnv>>

\* one pass of the inner loop: if(fin.good()) fin >> Qp[i][j]
ReadPlainEntry ==
    /\ pc = "rdm_plain" /\ rdm.k < (rdm.dim + 1) * (rdm.dim + 1)
    /\ LET at == rdm.k + 1 IN
       IF ~rdm.good THEN rdm' = [rdm EXCEPT !.k = at]
       ELSE IF rdm.tok > Len(rdm.file.tokens)
               THEN rdm' = [rdm EXCEPT !.k = at, !.good = FALSE]
       ELSE IF ~rdm.file.tokens[rdm.tok].ok
               THEN rdm' = [rdm EXCEPT !.k = at, !.good = FALSE,
                                       !.Qp[at] = IF rdm.std11 THEN 0 ELSE @]
       ELSE rdm' = [rdm EXCEPT !.k = at, !.tok = @ + 1,
                               !.Qp[at] = rdm.file.tokens[rdm.tok].v,
                               !.read = @ \cup {at}]
    /\ UNCHANGED <<pc, cl, param, out, hist, aff, dfm, rs, files, use, itr, chn, cnv>>

\* the loop is over: fin.close()
ReadPlainDone ==
    /\ pc = "rdm_plain" /\ rdm.k = (rdm.dim + 1) * (rdm.dim + 1)
    /\ pc' = "rdm_exponent"
    /\ UNCHANGED <<cl, param, out, hist, aff, dfm, rs, files, use, itr, chn, rdm, cnv>>

\* the exponent: Qp is returned for 1, and every exponent but 1 and -1 throws
ReadExponent ==
    /\ pc = "rdm_exponent"
    /\ LET r == ReadAffineMatrix([filename |-> "tran.mat", exponent |-> rdm.exponent,
                                  matrix |-> Unflat(rdm.dim, rdm.Qp)]) IN
       IF r.throws THEN pc' = "thrown" /\ rdm' = rdm
       ELSE pc' = "rdm_returned" /\ rdm' = [rdm EXCEPT !.result = r.Qp]
    /\ UNCHANGED <<cl, param, out, hist, aff, dfm, rs, files, use, itr, chn, cnv>>

ReadNext ==
    \/ ReadItkBranch \/ ReadPlainBranch \/ ReadPlainEntry \/ ReadPlainDone
    \/ ReadExponent

SpecRead == ReadInit /\ [][ReadNext]_vars

\* the homogeneous matrix of the transform of an ITK file
ItkHomogeneous == Homogeneous(rdm.file.tran.A, rdm.file.tran.b)

\* an ITK file whose transform has the dimension of the run has been read
ItkFileRead ==
    /\ rdm # << >>
    /\ pc \in {"rdm_exponent", "rdm_returned", "crashed"}
    /\ rdm.file.kind = "itk" /\ rdm.file.tdim = rdm.dim

\* C18: for D = 2, 3, 4 the matrix read from an ITK transform file is the
\* (D+1) x (D+1) homogeneous matrix of the transform's matrix and offset (as
\* stored, or with the signs of the RAS convention), with last row
\* (0, ..., 0, 1), and no element outside the matrix is written.
C18_ItkMatrixRead ==
    ItkFileRead =>
        /\ pc # "crashed"
        /\ ~rdm.outside
        /\ \/ rdm.Qp = [k \in AllEntries(rdm.dim) |->
                           ItkHomogeneous[((k - 1) \div (rdm.dim + 1)) + 1]
                                         [((k - 1) % (rdm.dim + 1)) + 1]]
           \/ rdm.Qp = FlipToRas(rdm.dim,
                          [k \in AllEntries(rdm.dim) |->
                              ItkHomogeneous[((k - 1) \div (rdm.dim + 1)) + 1]
                                            [((k - 1) % (rdm.dim + 1)) + 1]])

\* the count of numbers a plain file holds before its first word that is
\* not a number
RECURSIVE Parseable(_)
Parseable(tokens) ==
    IF tokens = << >> \/ ~Head(tokens).ok THEN 0 ELSE 1 + Parseable(Tail(tokens))

\* C19: a plain matrix file without (D+1)*(D+1) parseable numbers is
\* rejected, and a matrix that ReadAffineMatrix returns has no entry that
\* was not read from the file.
C19_MalformedPlainRejected ==
    (rdm # << >> /\ rdm.file.kind = "plain" /\ pc = "rdm_returned") =>
        /\ Parseable(rdm.file.tokens) >= (rdm.dim + 1) * (rdm.dim + 1)
        /\ rdm.read = AllEntries(rdm.dim)

(***************************************************************************)
(* RunDeformable: one pass of the iteration loop, kernel by kernel, on the *)
(* images uk, uk1 and viTemp of the level.                                 *)
(***************************************************************************)
\* the values of GreedyParameters::TimeStepMode
TimeStepModes == {"CONST", "SCALE", "SCALEDOWN"}

\* step sizes given with -e, in 1/Fix voxels
Epsilons == {Fix, 2 * Fix}

\* the gradients an evaluator leaves in uk1: along the row, per voxel
GradientVectors == {<<-2 * Fix>>, <<0>>, <<Fix>>}

\* running estimates a pass can start from: a stretch, a fold
RunningEstimates(n) ==
    { [i \in 1..n |-> <<(i - 1) * Fix>>],
      [i \in 1..n |-> <<IF i % 2 = 1 THEN Fix + 2 ELSE -2>>] }

\* the images GetGradientMask(level) can hold: a mask of weights that drops
\* the first voxel, a mask that keeps nothing
GradientMasks(n) ==
    { [i \in 1..n |-> i - 1],
      [i \in 1..n |-> 0] }

\* what the evaluator of a metric returns for the running estimate: the
\* metric of each image pair, and the gradient it leaves in uk1
EvaluatorAnswers(n) ==
    [ all_metrics : {<<4 * Fix, 6 * Fix>>},
      gradient : [1..n -> GradientVectors] ]

\* the sum printed after Tot:
RECURSIVE SumOf(_)
SumOf(values) == IF values = << >> THEN 0 ELSE values[1] + SumOf(Tail(values))

\* total_energy of the pass: ComputeOpticalFlowField(...) / epsilon and
\* ComputeNCCMetricImage(...) / epsilon, ComputeMIFlowField(...) as it is
TotalEnergy(metric, all_metrics, epsilon) ==
    IF metric = "MI"
       THEN SumOf(all_metrics)
       ELSE SumOf([k \in 1..Len(all_metrics) |-> (all_metrics[k] * Fix) \div epsilon])

IterParams ==
    { [RunParamDefault EXCEPT !.mode = "GREEDY", !.metric = m,
                              !.time_step_mode = t, !.gradient_mask = g,
                              !.epsilon = e] :
        m \in {"SSD", "MI", "NCC"}, t \in TimeStepModes,
        g \in {"", "mask.nii"}, e \in Epsilons }

\* the head of a pass: uk is the running estimate, uk1 and viTemp are what
\* the last pass left
IterInit ==
    /\ pc = "itr_metric"
    /\ cl = [argc |-> MaxArgc, i |-> MaxArgc]
    /\ param \in IterParams
    /\ out = OutDefault
    /\ hist = HistDefault
    /\ aff = << >> /\ dfm = << >> /\ rs = << >> /\ files = << >>
    /\ chn = << >> /\ rdm = << >> /\ cnv = << >> /\ use = << >>
    /\ itr \in UNION { [ n : {n},
                         answer : EvaluatorAnswers(n),
                         mask : IF param.gradient_mask = ""
                                   THEN {<< >>} ELSE GradientMasks(n),
                         uk : RunningEstimates(n),
                         uk_in : {<< >>},
                         uk1 : {ZeroField(n, 1)},
                         viTemp : {ZeroField(n, 1)},
                         nans : {{}},
                         total_energy : {0},
                         ops : {<< >>} ] : n \in {MaxVoxels} }

\* one kernel call in the log of the pass
Call(op, reads, writes) == [op |-> op, reads |-> reads, writes |-> writes]

\* lines 1020-1119: the evaluator of param.metric reads uk and leaves the
\* gradient in uk1; total_energy is the sum of what it returns
IterMetric ==
    /\ pc = "itr_metric"
    /\ itr' = [itr EXCEPT !.uk_in = itr.uk,
                          !.uk1 = itr.answer.gradient,
                          !.total_energy = TotalEnergy(param.metric,
                                               itr.answer.all_metrics, param.epsilon),
                          !.ops = Append(@, Call("metric", {"uk"}, {"uk1"}))]
    /\ pc' = "itr_mask"
    /\ UNCHANGED <<cl, param, out, hist, aff, dfm, rs, files, use, chn, rdm, cnv>>

\* lines 1122-1123 if the mask weighed the energy as well as the gradient
IterMaskOnMetric ==
    /\ pc = "itr_mask"
    /\ itr' = IF param.gradient_mask # ""
                 THEN [itr EXCEPT !.uk1 = MultiplyInPlace(@, itr.mask),
                                  !.total_energy = @ * itr.mask[itr.n],
                                  !.ops = Append(@, Call("mask", {"uk1"}, {"uk1"}))]
                 ELSE itr
    /\ pc' = "itr_smooth"
    /\ UNCHANGED <<cl, param, out, hist, aff, dfm, rs, files, use, chn, rdm, cnv>>

\* lines 1122-1123: if(param.gradient_mask.size()) uk1 is multiplied by the
\* mask of the level
IterMask ==
    /\ pc = "itr_mask"
    /\ itr' = IF param.gradient_mask # ""
                 THEN [itr EXCEPT !.uk1 = MultiplyInPlace(@, itr.mask),
                                  !.ops = Append(@, Call("mask", {"uk1"}, {"uk1"}))]
                 ELSE itr
    /\ pc' = "itr_smooth"
    /\ UNCHANGED <<cl, param, out, hist, aff, dfm, rs, files, use, chn, rdm, cnv>>

\* line 1134: vimg_smooth_withborder(uk1, viTemp, sigma_pre_phys, 1)
IterSmoothPre ==
    /\ pc = "itr_smooth"
    /\ itr' = [itr EXCEPT !.viTemp = SmoothWithBorder(itr.uk1),
                          !.ops = Append(@, Call("smooth_pre", {"uk1"}, {"viTemp"}))]
    /\ pc' = "itr_scale"
    /\ UNCHANGED <<cl, param, out, hist, aff, dfm, rs, files, use, chn, rdm, cnv>>

\* lines 1138-1141: viTemp normalized under SCALE and SCALEDOWN
IterScale ==
    /\ pc = "itr_scale"
    /\ itr' = IF param.time_step_mode \in {"SCALE", "SCALEDOWN"}
                 THEN LET r == NormalizeToFixedMaxLength(itr.viTemp, param.epsilon,
                                   param.time_step_mode = "SCALEDOWN")
                      IN [itr EXCEPT !.viTemp = r.field,
                                     !.nans = IF r.nan THEN @ \cup {"viTemp"} ELSE @,
                                     !.ops = Append(@, Call("scale", {"viTemp"}, {"viTemp"}))]
                 ELSE itr
    /\ pc' = "itr_update"
    /\ UNCHANGED <<cl, param, out, hist, aff, dfm, rs, files, use, chn, rdm, cnv>>

\* lines 1152-1153 without the add: uk1 is uk sampled at i + viTemp(i)
IterUpdateNoAdd ==
    /\ pc = "itr_update"
    /\ itr' = [itr EXCEPT !.uk1 = InterpField(itr.uk, itr.viTemp),
                          !.nans = IF "viTemp" \in @ THEN @ \cup {"uk1"} ELSE @,
                          !.ops = Append(@, Call("update", {"uk", "viTemp"}, {"uk1"}))]
    /\ pc' = "itr_post"
    /\ UNCHANGED <<cl, param, out, hist, aff, dfm, rs, files, use, chn, rdm, cnv>>

\* lines 1152-1153 with uk as the image written
IterUpdateInPlace ==
    /\ pc = "itr_update"
    /\ itr' = [itr EXCEPT !.uk = AddInPlace(InterpField(itr.uk, itr.viTemp), itr.viTemp),
                          !.nans = IF "viTemp" \in @ THEN @ \cup {"uk"} ELSE @,
                          !.ops = Append(@, Call("update", {"uk", "viTemp"}, {"uk"}))]
    /\ pc' = "itr_post"
    /\ UNCHANGED <<cl, param, out, hist, aff, dfm, rs, files, use, chn, rdm, cnv>>

\* lines 1152-1153: interp_vimg(uk, viTemp, 1.0, uk1) and
\* vimg_add_in_place(uk1, viTemp); a field that is not a number gives one
IterUpdate ==
    /\ pc = "itr_update"
    /\ itr' = [itr EXCEPT !.uk1 = AddInPlace(InterpField(itr.uk, itr.viTemp), itr.viTemp),
                          !.nans = IF "viTemp" \in @ THEN @ \cup {"uk1"} ELSE @,
                          !.ops = Append(@, Call("update", {"uk", "viTemp"}, {"uk1"}))]
    /\ pc' = "itr_post"
    /\ UNCHANGED <<cl, param, out, hist, aff, dfm, rs, files, use, chn, rdm, cnv>>

\* line 1164: vimg_smooth_withborder(uk1, uk, sigma_post_phys, 1)
IterSmoothPost ==
    /\ pc = "itr_post"
    /\ itr' = [itr EXCEPT !.uk = SmoothWithBorder(itr.uk1),
                          !.nans = IF "uk1" \in @ THEN @ \cup {"uk"} ELSE @,
                          !.ops = Append(@, Call("smooth_post", {"uk1"}, {"uk"}))]
    /\ pc' = "itr_done"
    /\ UNCHANGED <<cl, param, out, hist, aff, dfm, rs, files, use, chn, rdm, cnv>>

IterNext ==
    \/ IterMetric
    \/ IterMask
    \/ IterSmoothPre
    \/ IterScale
    \/ IterUpdate
    \/ IterSmoothPost

SpecIter == IterInit /\ [][IterNext]_vars

\* (a o b)(i) = b(i) + a(i + b(i)), with linear sampling
Compose(a, b) ==
    [i \in 1..Len(b) |-> VecAdd(b[i], Sample(a, (i - 1) * Fix + b[i][1]))]

\* the update step has acted and the post-update smoothing has not
UpdateStepDone == pc = "itr_post"

\* C11 as stated: the field the update step leaves in uk1 is (u o g) + g,
\* u the running estimate uk and g the smoothed and scaled update viTemp
C11_UpdateIsComposePlusUpdate ==
    UpdateStepDone /\ "viTemp" \notin itr.nans
        => itr.uk1 = AddInPlace(Compose(itr.uk, itr.viTemp), itr.viTemp)

\* C11 amended: the field the update step leaves in uk1 is u o g at every
\* voxel (the update is added once, by the composition itself), and is not a
\* number exactly when g is not; u and g are as they were before the step
C11_UpdateIsCompose ==
    UpdateStepDone
        => /\ itr.uk1 = Compose(itr.uk, itr.viTemp)
           /\ \A i \in 1..itr.n :
                 itr.uk1[i][1] = itr.viTemp[i][1]
                     + Sample(itr.uk, (i - 1) * Fix + itr.viTemp[i][1])[1]
           /\ ("uk1" \in itr.nans) = ("viTemp" \in itr.nans)
           /\ itr.uk = itr.uk_in

\* an update that moves a voxel by part of a voxel onto a running estimate
\* that differs between the two voxels sampled
C11_Witness ==
    /\ UpdateStepDone /\ itr.nans = {}
    /\ \E i \in 1..itr.n :
          /\ itr.viTemp[i][1] % Fix # 0
          /\ itr.uk1[i] # VecAdd(itr.uk[i], itr.viTemp[i])
          /\ itr.uk1[i] # itr.viTemp[i]
    /\ itr.uk1 = Compose(itr.uk, itr.viTemp)

\* the kernels of a pass in the order of steps 1 to 6: the mask only with
\* -gm, the scaling only under SCALE and SCALEDOWN
StepOrder ==
    <<"metric">>
    \o (IF param.gradient_mask # "" THEN <<"mask">> ELSE << >>)
    \o <<"smooth_pre">>
    \o (IF param.time_step_mode \in {"SCALE", "SCALEDOWN"} THEN <<"scale">> ELSE << >>)
    \o <<"update", "smooth_post">>

\* the names of the kernels the pass has called so far
OpsCalled == [k \in 1..Len(itr.ops) |-> itr.ops[k].op]

\* C12: the kernels of a pass are called in the one order metric, mask (if
\* set), pre-update smoothing, scaling, composition-and-add, post-update
\* smoothing; uk is read by the metric and by the composition only, is
\* written by the post-update smoothing only, and holds the running
\* estimate the pass began with until then
C12_FixedOrderOfSteps ==
    /\ pc \in {"itr_mask", "itr_smooth", "itr_scale", "itr_update", "itr_post", "itr_done"}
          => /\ Len(itr.ops) <= Len(StepOrder)
             /\ OpsCalled = SubSeq(StepOrder, 1, Len(itr.ops))
             /\ \A k \in 1..Len(itr.ops) :
                   /\ "uk" \in itr.ops[k].reads <=> itr.ops[k].op \in {"metric", "update"}
                   /\ "uk" \in itr.ops[k].writes <=> itr.ops[k].op = "smooth_post"
    /\ pc \in {"itr_mask", "itr_smooth", "itr_scale", "itr_update", "itr_post"}
          => itr.uk = itr.uk_in
    /\ pc = "itr_done"
          => /\ OpsCalled = StepOrder
             /\ itr.uk = SmoothWithBorder(itr.uk1)

\* a pass with a mask and a scaling has run all six steps and changed uk
C12_Witness ==
    /\ pc = "itr_done"
    /\ OpsCalled = <<"metric", "mask", "smooth_pre", "scale", "update", "smooth_post">>
    /\ itr.uk # itr.uk_in
    /\ itr.nans = {}

\* the mask step of the pass is over
MaskStepDone == pc \in {"itr_smooth", "itr_scale", "itr_update", "itr_post", "itr_done"}

ScaleStepDone == pc = "itr_update"

\* the update, after the scaling, kept to the cap of the time step mode
StepCapped ==
    /\ param.time_step_mode = "SCALE"
          => "viTemp" \notin itr.nans /\ MaxNorm(itr.viTemp) = param.epsilon
    /\ param.time_step_mode = "SCALEDOWN"
          => "viTemp" \notin itr.nans /\ MaxNorm(itr.viTemp) <= param.epsilon
    /\ param.time_step_mode = "CONST"
          => "viTemp" \notin itr.nans /\ itr.viTemp = SmoothWithBorder(itr.uk1)

\* C14: after the step-size scaling, for every smoothed gradient, the
\* largest norm of the update is epsilon under SCALE and at most epsilon
\* under SCALEDOWN, and under CONST the field is the smoothed gradient
C14_StepSizeCap == ScaleStepDone => StepCapped

\* the cap for the smoothed gradients that are not zero everywhere
StepCappedUnlessZero ==
    ScaleStepDone /\ SmoothWithBorder(itr.uk1) # ZeroField(itr.n, 1) => StepCapped

\* the running estimate a deformable level l starts from, given the field
\* the level before ended with
LevelStartEstimate(l, last) ==
    IF l > 0 THEN last \o <<"resample", "scale2">>
    ELSE IF param.initial_affine.filename # "" THEN <<"affine">>
    ELSE <<"zero">>

\* C13: a deformable level that starts has as its running estimate the zero
\* field at level 0 without -ia, the field of the -ia matrix at level 0 with
\* -ia, and at every later level the field the level before ended with,
\* resampled and times 2, with or without -ia; the field a level ends with is
\* its running estimate when its loop ends
C13_LevelStartEstimate ==
    /\ [][pc = "def_level" /\ pc' = "def_iter"
             => dfm'.uk = LevelStartEstimate(dfm.level, dfm.uLevel) /\ dfm'.iter = 0]_vars
    /\ [][pc = "def_iter" /\ pc' \in {"def_level", "def_write"}
             => dfm'.uLevel = dfm.uk /\ dfm'.level = dfm.level + 1]_vars
    /\ [](pc = "def_level" /\ dfm.level = 0 => dfm.uLevel = << >>)

\* a run with -ia has started a later level from the updated field of the
\* level before
C13_Witness ==
    /\ pc = "def_iter" /\ dfm.iter = 0 /\ dfm.level > 0
    /\ param.initial_affine.filename # ""
    /\ Len(dfm.uk) > 3
    /\ dfm.uk[1] = "affine" /\ dfm.uk[2] = "update"
    /\ dfm.uk[Len(dfm.uk)] = "scale2"

(***************************************************************************)
(* ReadTransformChain, spec by spec, on the row of voxels of the reference *)
(* space along axis 0. Lengths are in 1/Fix of the spacing; a warp image    *)
(* is on the grid of the reference space and does not vary along axis 1.   *)
(***************************************************************************)
\* origins (LPS) of the reference space
ChainOrigins == {<<0, 0>>, <<Fix, -2 * Fix>>}

\* TransformIndexToPhysicalPoint of voxel i of the row
Geom(origin, i) == <<origin[1] + (i - 1) * Fix, origin[2]>>

\* the displacement fields held by the warp files of the model
WarpFiles(n) ==
    { [i \in 1..n |-> <<2 * i, Fix>>],
      [i \in 1..n |-> <<IF i % 2 = 1 THEN Fix + 1 ELSE -3, -i>>] }

\* the transform specs of a chain: warp images and matrix files, the matrix
\* files with every exponent
ChainSpecs(n) ==
    { [filename |-> "warp.nii", image |-> TRUE, field |-> w, matrix |-> << >>,
       exponent |-> 1] : w \in WarpFiles(n) } \cup
    { [filename |-> "tran.mat", image |-> FALSE, field |-> << >>, matrix |-> M,
       exponent |-> e] : M \in AffineFiles(2) \cup ShearFiles(2), e \in Exponents }

\* ReadTransformChain is entered with a chain and a reference space
ChainInit ==
    /\ pc = "chn_start"
    /\ cl = [argc |-> MaxArgc, i |-> MaxArgc]
    /\ param = RunParamDefault
    /\ out = OutDefault
    /\ hist = HistDefault
    /\ aff = << >> /\ dfm = << >> /\ rs = << >> /\ files = << >>
    /\ itr = << >> /\ rdm = << >> /\ cnv = << >> /\ use = << >>
    /\ chn \in UNION { [ n : {MaxVoxels},
                         origin : ChainOrigins,
                         tran_chain : [1..k -> ChainSpecs(MaxVoxels)],
                         i : {0},
                         out_warp : {<< >>},
                         before : {<< >>},
                         Qp : {<< >>} ] : k \in 1..MaxChain }

\* lines 1320-1322: out_warp is allocated, zero, on the reference space
ChainAlloc ==
    /\ pc = "chn_start"
    /\ chn' = [chn EXCEPT !.out_warp = ZeroField(chn.n, 2)]
    /\ pc' = "chn_loop"
    /\ UNCHANGED <<cl, param, out, hist, aff, dfm, rs, files, use, itr, rdm, cnv>>

\* lines 1332-1343 with the warp of the file added as it is
ChainImageNoInterp ==
    /\ pc = "chn_loop" /\ chn.i < Len(chn.tran_chain)
    /\ chn.tran_chain[chn.i + 1].image
    /\ chn' = [chn EXCEPT !.before = chn.out_warp,
                          !.out_warp = AddInPlace(chn.out_warp,
                                                  chn.tran_chain[chn.i + 1].field),
                          !.i = @ + 1]
    /\ pc' = "chn_image"
    /\ UNCHANGED <<cl, param, out, hist, aff, dfm, rs, files, use, itr, rdm, cnv>>

\* lines 1332-1343: the file is an image: warp_i is read, sampled at
\* i + out_warp(i) into warp_tmp, and warp_tmp is added to out_warp
ChainImage ==
    /\ pc = "chn_loop" /\ chn.i < Len(chn.tran_chain)
    /\ chn.tran_chain[chn.i + 1].image
    /\ LET warp_i == chn.tran_chain[chn.i + 1].field
           warp_tmp == InterpField(warp_i, chn.out_warp)
       IN chn' = [chn EXCEPT !.before = chn.out_warp,
                             !.out_warp = AddInPlace(chn.out_warp, warp_tmp),
                             !.i = @ + 1]
    /\ pc' = "chn_image"
    /\ UNCHANGED <<cl, param, out, hist, aff, dfm, rs, files, use, itr, rdm, cnv>>

\* lines 1353-1375 for one voxel, without the two switches of coordinates
MatrixStepNoSwitch(A, b, pt, u) ==
    LET pt2 == VecAdd(pt, u)
        q == VecAdd(MatVec(A, pt2), b)
    IN [k \in 1..Len(pt) |-> q[k] - pt[k]]

\* lines 1353-1375 for one voxel: pt2 = pt + u, switched to NIFTI
\* coordinates, q = A * pt2 + b, switched back, and the new u is q - pt
MatrixStep(A, b, pt, u) ==
    LET pt2 == [k \in 1..Len(pt) |-> LpsToRas(k) * (pt[k] + u[k])]
        q == VecAdd(MatVec(A, pt2), b)
    IN [k \in 1..Len(pt) |-> LpsToRas(k) * q[k] - pt[k]]

\* lines 1345-1377: the file is a matrix: ReadAffineMatrix, A and b taken
\* out of it, and every voxel of out_warp mapped
ChainMatrix ==
    /\ pc = "chn_loop" /\ chn.i < Len(chn.tran_chain)
    /\ ~chn.tran_chain[chn.i + 1].image
    /\ LET r == ReadAffineMatrix(chn.tran_chain[chn.i + 1]) IN
       IF r.throws
          THEN pc' = "thrown" /\ chn' = chn
          ELSE LET A == [i \in 1..2 |-> [j \in 1..2 |-> r.Qp[i][j]]]
                   b == [i \in 1..2 |-> r.Qp[i][3]]
               IN /\ chn' = [chn EXCEPT
                                !.before = chn.out_warp,
                                !.Qp = r.Qp,
                                !.out_warp = [i \in 1..chn.n |->
                                    MatrixStep(A, b, Geom(chn.origin, i), chn.out_warp[i])],
                                !.i = @ + 1]
                  /\ pc' = "chn_matrix"
    /\ UNCHANGED <<cl, param, out, hist, aff, dfm, rs, files, use, itr, rdm, cnv>>

\* line 1339: vimg_read of the warp file throws
ChainReadFails ==
    /\ pc = "chn_loop" /\ chn.i < Len(chn.tran_chain)
    /\ chn.tran_chain[chn.i + 1].image
    /\ pc' = "thrown"
    /\ UNCHANGED <<cl, param, out, hist, aff, dfm, rs, files>>
    /\ UNCHANGED kernVars

\* line 1325: the loop goes on to the next spec
ChainLoop ==
    /\ pc \in {"chn_image", "chn_matrix"}
    /\ pc' = "chn_loop"
    /\ UNCHANGED <<cl, param, out, hist, aff, dfm, rs, files>>
    /\ UNCHANGED kernVars

\* line 1325: no spec is left, out_warp is the composite
ChainEnd ==
    /\ pc = "chn_loop" /\ chn.i = Len(chn.tran_chain)
    /\ pc' = "chn_done"
    /\ UNCHANGED <<cl, param, out, hist, aff, dfm, rs, files>>
    /\ UNCHANGED kernVars

ChainNext ==
    \/ ChainAlloc
    \/ ChainImage
    \/ ChainMatrix
    \/ ChainReadFails
    \/ ChainLoop
    \/ ChainEnd

SpecChain == ChainInit /\ [][ChainNext]_vars

\* the spec the loop of ReadTransformChain has just taken
SpecTaken == chn.tran_chain[chn.i]

\* the composite starts as the zero field
ChainStartsFromZero ==
    pc = "chn_loop" /\ chn.i = 0 => chn.out_warp = ZeroField(chn.n, 2)

\* C16 as stated: the chain starts from the zero field and a warp u_i
\* replaces the composite u by (u_i o u) + u_i
C16_WarpIsComposePlusWarp ==
    /\ ChainStartsFromZero
    /\ pc = "chn_image"
          => chn.out_warp = AddInPlace(Compose(SpecTaken.field, chn.before),
                                       SpecTaken.field)

\* C16 amended: the chain starts from the zero field and a warp u_i
\* replaces the composite u by u_i o u, which is u(i) + u_i(i + u(i)) at
\* every voxel
C16_WarpIsCompose ==
    /\ ChainStartsFromZero
    /\ pc = "chn_image"
          => /\ chn.out_warp = Compose(SpecTaken.field, chn.before)
             /\ \A i \in 1..chn.n :
                   chn.out_warp[i]
                      = VecAdd(chn.before[i],
                               Sample(SpecTaken.field, (i - 1) * Fix + chn.before[i][1]))

\* a warp has been composed onto a composite that is not zero and moves a
\* voxel by part of a voxel
C16_Witness ==
    /\ pc = "chn_image" /\ chn.i > 1
    /\ \E i \in 1..chn.n :
          /\ chn.before[i][1] % Fix # 0
          /\ chn.out_warp[i] # VecAdd(chn.before[i], SpecTaken.field[i])
    /\ chn.out_warp = Compose(SpecTaken.field, chn.before)

\* a physical point (LPS) in the convention of the matrix (RAS), with the 1
\* of homogeneous coordinates
RasPoint(p) == Append([k \in 1..Len(p) |-> LpsToRas(k) * p[k]], 1)

\* C17: after the step of a matrix spec (A, e), e = 1 or -1, every voxel i
\* has u(i) = M p - geom(i), p = geom(i) + u_old(i), the point taken to RAS
\* before M and back after it; M = A for e = 1, and M = inverse(A) for
\* e = -1: A takes the new point back to p
C17_MatrixStepMapsPoints ==
    pc = "chn_matrix" /\ SpecTaken.exponent \in {1, -1}
        => /\ \A i \in 1..chn.n :
                 LET p == VecAdd(Geom(chn.origin, i), chn.before[i])
                     pNew == VecAdd(Geom(chn.origin, i), chn.out_warp[i])
                 IN IF SpecTaken.exponent = 1
                       THEN RasPoint(pNew) = MatVec(SpecTaken.matrix, RasPoint(p))
                       ELSE MatVec(SpecTaken.matrix, RasPoint(pNew)) = RasPoint(p)
           /\ SpecTaken.exponent = 1 => chn.Qp = SpecTaken.matrix
           /\ SpecTaken.exponent = -1
                 => MatMul(SpecTaken.matrix, chn.Qp) = IdentityMatrix(3)

\* the inverse of a shear has been applied to a composite that is not zero
C17_Witness ==
    /\ pc = "chn_matrix" /\ SpecTaken.exponent = -1
    /\ SpecTaken.matrix \in ShearFiles(2)
    /\ chn.Qp # SpecTaken.matrix
    /\ chn.before # ZeroField(chn.n, 2)
    /\ chn.out_warp # chn.before

(***************************************************************************)
(* main() and Run for the options -d, -m, -a, -brute, -w, -i, -dump-moving *)
(* and -dump-freq: what the run does with the weights, the NCC radius and  *)
(* the dump frequency the parser stored.                                   *)
(***************************************************************************)
\* array_caster<VDim>::to_itkSize(t): sz[i] = t[i] for i < VDim; an index past
\* the end of t reads whatever lies behind the vector, here g
to_itkSize(n, t, g) == [i \in 1..n |-> IF i <= Len(t) THEN t[i] ELSE g]

\* to_itkSize(t) reads past the end of t
ReadsPastEnd(n, t) == Len(t) < n

\* ReadImages: every pair of param.inputs goes to AddImagePair with its weight
OptsReadImages ==
    /\ pc = "run"
    /\ ~(param.mode = "BRUTE" /\ BruteCheck(param) # "ok")
    /\ use' = [ pairs |-> [k \in 1..Len(param.inputs) |-> param.inputs[k].weight],
                sizes |-> << >>, past_end |-> FALSE, divisors |-> << >>, iter |-> 0 ]
    /\ pc' = CASE param.mode = "AFFINE" -> "opts_affine"
               [] param.mode = "BRUTE"  -> "opts_brute"
               [] OTHER                 -> "opts_greedy"
    /\ UNCHANGED <<cl, param, out, hist, aff, dfm, rs, files, itr, chn, rdm, cnv>>

\* what a conversion of radius vector t leaves in use, reading g past the end
Converted(u, t, g) ==
    [u EXCEPT !.sizes = Append(@, to_itkSize(param.dim, t, g)),
              !.past_end = @ \/ ReadsPastEnd(param.dim, t)]

\* one pass of the loop of RunDeformable: under NCC the radius is converted
\* (line 1052); with -dump-moving the test 0 == iter % dump_frequency is
\* made (1126, 1144, 1156). A read past the end and a division by zero are
\* undefined: the process is killed or goes on with some value
OptsDeformIterate ==
    /\ pc = "opts_greedy" /\ use.iter < MaxIterRun
    /\ \E g \in GarbageValues, killed \in BOOLEAN :
          LET past == param.metric = "NCC" /\ ReadsPastEnd(param.dim, param.metric_radius)
              zero == param.flag_dump_moving /\ param.dump_frequency = 0
              u1 == IF param.metric = "NCC"
                       THEN Converted(use, param.metric_radius, g) ELSE use
              u2 == IF param.flag_dump_moving
                       THEN [u1 EXCEPT !.divisors = Append(@, param.dump_frequency)]
                       ELSE u1
          IN /\ killed => past \/ zero
             /\ use' = [u2 EXCEPT !.iter = @ + 1]
             /\ pc' = IF killed THEN "crashed" ELSE "opts_greedy"
    /\ UNCHANGED <<cl, param, out, hist, aff, dfm, rs, files, itr, chn, rdm, cnv>>

\* AffineCostFunction::compute: under NCC the radius is converted (434, 467)
OptsAffineCompute ==
    /\ pc = "opts_affine"
    /\ \E g \in GarbageValues, killed \in BOOLEAN :
          LET past == param.metric = "NCC" /\ ReadsPastEnd(param.dim, param.metric_radius)
          IN /\ killed => past
             /\ use' = IF param.metric = "NCC"
                          THEN Converted(use, param.metric_radius, g) ELSE use
             /\ pc' = IF killed THEN "crashed" ELSE "opts_done"
    /\ UNCHANGED <<cl, param, out, hist, aff, dfm, rs, files, itr, chn, rdm, cnv>>

\* RunBrute, lines 1261-1262: the search radius and the metric radius are
\* converted
OptsBruteSizes ==
    /\ pc = "opts_brute"
    /\ \E g \in GarbageValues, killed \in BOOLEAN :
          LET past == ReadsPastEnd(param.dim, param.metric_radius)
          IN /\ killed => past
             /\ use' = Converted(Converted(use, param.brute_search_radius, g),
                                 param.metric_radius, g)
             /\ pc' = IF killed THEN "crashed" ELSE "opts_done"
    /\ UNCHANGED <<cl, param, out, hist, aff, dfm, rs, files, itr, chn, rdm, cnv>>

\* the loop of RunDeformable ends
OptsDeformEnd ==
    /\ pc = "opts_greedy" /\ use.iter = MaxIterRun
    /\ pc' = "opts_done"
    /\ UNCHANGED <<cl, param, out, hist>>
    /\ UNCHANGED runVars

\* the run reaches its `return 0`
OptsReturn ==
    /\ pc = "opts_done"
    /\ pc' = "exit"
    /\ out' = [out EXCEPT !.exit = <<ExitSuccess>>]
    /\ hist' = [hist EXCEPT !.ran = TRUE]
    /\ UNCHANGED <<cl, param>>
    /\ UNCHANGED runVars

OptsNext ==
    \/ Start
    \/ ParseD \/ ParseM \/ ParseA \/ ParseBrute
    \/ ParseW \/ ParseI \/ ParseDumpMoving \/ ParseDumpFreq
    \/ ArgumentError
    \/ DispatchWrongDim \/ Dispatch
    \/ RunBruteRejects \/ RunThrows
    \/ OptsReadImages
    \/ OptsDeformIterate \/ OptsDeformEnd
    \/ OptsAffineCompute
    \/ OptsBruteSizes
    \/ OptsReturn
    \/ Catch

SpecOpts == Init /\ [][OptsNext]_vars

(***************************************************************************)
(* main() and Run for command lines of -w and -i options only, long enough *)
(* for a weight and two image pairs.                                       *)
(***************************************************************************)
\* largest argc of a command line of -w and -i options
MaxWeightArgc == 9

WeightsInit ==
    /\ pc = "start"
    /\ cl \in [argc : 1..MaxWeightArgc, i : {1}]
    /\ param = ParamDefault
    /\ out = OutDefault
    /\ hist = HistDefault
    /\ aff = << >> /\ dfm = << >> /\ rs = << >> /\ files = << >>
    /\ itr = << >> /\ chn = << >> /\ rdm = << >> /\ cnv = << >> /\ use = << >>

WeightsNext ==
    \/ Start
    \/ ParseW \/ ParseI
    \/ ArgumentError
    \/ Dispatch
    \/ RunThrows
    \/ OptsReadImages
    \/ OptsDeformIterate \/ OptsDeformEnd
    \/ OptsReturn
    \/ Catch

SpecWeights == WeightsInit /\ [][WeightsNext]_vars

\* ReadImages has handed the image pairs to the registration helper
PairsAdded == pc \in {"opts_greedy", "opts_affine", "opts_brute", "opts_done"}

\* the weight C21 names for pair k: a -w value read since the -i before, 1.0
\* when there was none
WeightNamed(k, w) ==
    IF hist.pairW[k] = << >>
       THEN w = 1
       ELSE \E j \in 1..Len(hist.pairW[k]) : w = hist.pairW[k][j]

\* C21: the weight of each image pair is the value of a -w option given
\* between the -i before (or the start of the command line) and its own -i,
\* and the default 1.0 when no -w was given in between
C21_WeightIsForNextPairOnly ==
    PairsAdded => \A k \in 1..Len(use.pairs) : WeightNamed(k, use.pairs[k])

\* C22: every image pair handed to the registration helper has a weight
\* greater than 0
C22_WeightsArePositive ==
    PairsAdded => \A k \in 1..Len(use.pairs) : use.pairs[k] > 0

\* what the code does: a pair has the last -w value read before its -i,
\* however far back, and 1.0 when none was read
WeightIsLastRead ==
    PairsAdded =>
        \A k \in 1..Len(use.pairs) :
            LET before == {j \in 1..k : hist.pairW[j] # << >>}
            IN IF before = {} THEN use.pairs[k] = 1
               ELSE LET j == CHOOSE x \in before : \A y \in before : y <= x
                    IN use.pairs[k] = hist.pairW[j][Len(hist.pairW[j])]

\* C28: whenever the NCC radius is converted to a size of the dimension of
\* the run, in the deformable, affine or brute-force path, every index read
\* from the radius vector is within its bounds
C28_RadiusReadInBounds ==
    use # << >> => ~use.past_end

\* the radius is read in bounds when it has as many entries as the run has
\* dimensions
RadiusFitsDimension ==
    use # << >> /\ Len(param.metric_radius) >= param.dim => ~use.past_end

\* C30: with -dump-moving set, every dump test of the deformable loop
\* divides by a dump frequency that is not zero
C30_DumpDivisorNonZero ==
    use # << >> => \A k \in 1..Len(use.divisors) : use.divisors[k] # 0

(***************************************************************************)
(* RunBrute: the search over the offsets, offset by offset, on a row of    *)
(* voxels. NCC values are whole numbers of 1/100.                          *)
(***************************************************************************)
\* m_best->FillBuffer(-100.0), in the unit of the NCC values of the model
BestMetricStart == -100

\* voxels of the row the brute-force search is followed on
MaxBruteVoxels == 2

\* search radii given to -brute in two dimensions
SearchRadii == {<<1, 0>>, <<0, 1>>}

\* values of the NCC map of an offset at a voxel: the weights of the image
\* pairs scale the correlation, so a value may lie below the start value
NccValues == {-150, -20, 30}

\* dummy_nbr.Size() for radius rad: the product of 2 * rad[i] + 1
NeighborhoodSize(rad) == (2 * rad[1] + 1) * (2 * rad[2] + 1)

\* dummy_nbr.GetOffset(k), k from 0: axis 0 runs fastest
GetOffset(rad, k) ==
    <<(k % (2 * rad[1] + 1)) - rad[1], (k \div (2 * rad[1] + 1)) - rad[2]>>

\* RunBrute has allocated its images: u_best zero, m_best at its start value
BruteInit ==
    /\ pc = "brute_loop"
    /\ cl = [argc |-> MaxArgc, i |-> MaxArgc]
    /\ param \in { [RunParamDefault EXCEPT !.mode = "BRUTE", !.metric = "NCC",
                                           !.metric_radius = <<2, 2>>,
                                           !.brute_search_radius = r] :
                     r \in SearchRadii }
    /\ out = OutDefault
    /\ hist = HistDefault
    /\ aff = << >> /\ dfm = << >> /\ rs = << >> /\ files = << >>
    /\ itr = << >> /\ chn = << >> /\ rdm = << >> /\ cnv = << >>
    /\ use = [ k |-> 0,
               u_best |-> ZeroField(MaxBruteVoxels, 2),
               m_best |-> [i \in 1..MaxBruteVoxels |-> BestMetricStart],
               maps |-> << >> ]

\* the pass over the images: at every voxel where m_curr is greater than
\* m_best, m_best takes its value and u_best the offset
KeepBetter(u_best, m_best, m_curr, vec_offset) ==
    [ u_best |-> [i \in 1..Len(m_best) |->
                     IF m_curr[i] > m_best[i] THEN vec_offset ELSE u_best[i]],
      m_best |-> [i \in 1..Len(m_best) |->
                     IF m_curr[i] > m_best[i] THEN m_curr[i] ELSE m_best[i]] ]

\* one pass of the loop over the offsets: u_curr is filled with it, the NCC map m_curr
\* of the offset is computed, and the better voxels are kept
BruteOffset ==
    /\ pc = "brute_loop"
    /\ use.k < NeighborhoodSize(param.brute_search_radius)
    /\ \E m_curr \in [1..MaxBruteVoxels -> NccValues] :
          LET vec_offset == GetOffset(param.brute_search_radius, use.k)
              kept == KeepBetter(use.u_best, use.m_best, m_curr, vec_offset)
          IN use' = [use EXCEPT !.k = @ + 1,
                                !.u_best = kept.u_best,
                                !.m_best = kept.m_best,
                                !.maps = Append(@, [offset |-> vec_offset, ncc |-> m_curr])]
    /\ UNCHANGED <<pc, cl, param, out, hist, aff, dfm, rs, files, itr, chn, rdm, cnv>>

\* the loop over the offsets ends: every offset has been taken
BruteEnd ==
    /\ pc = "brute_loop"
    /\ use.k = NeighborhoodSize(param.brute_search_radius)
    /\ pc' = "brute_done"
    /\ UNCHANGED <<cl, param, out, hist>>
    /\ UNCHANGED runVars

BruteNext ==
    \/ BruteOffset
    \/ BruteEnd

SpecBrute == BruteInit /\ [][BruteNext]_vars

\* the largest NCC value of voxel i over the offsets enumerated
MaxNcc(i) ==
    LET vals == {use.maps[j].ncc[i] : j \in 1..Len(use.maps)}
    IN CHOOSE v \in vals : \A w \in vals : w <= v

\* C23: after all offsets within the search radius have been enumerated, at
\* every voxel the stored best metric is the largest NCC value of the voxel
\* over the offsets, and the stored displacement is an offset that has it
C23_BestIsMaxOverOffsets ==
    pc = "brute_done"
        => \A i \in 1..MaxBruteVoxels :
              /\ use.m_best[i] = MaxNcc(i)
              /\ \E j \in 1..Len(use.maps) :
                    /\ use.maps[j].offset = use.u_best[i]
                    /\ use.maps[j].ncc[i] = MaxNcc(i)

\* the same for the voxels where some offset has an NCC value above the
\* start value of m_best
BestIsMaxAboveStart ==
    pc = "brute_done"
        => \A i \in 1..MaxBruteVoxels :
              MaxNcc(i) > BestMetricStart
                 => /\ use.m_best[i] = MaxNcc(i)
                    /\ \E j \in 1..Len(use.maps) :
                          /\ use.maps[j].offset = use.u_best[i]
                          /\ use.maps[j].ncc[i] = MaxNcc(i)

(***************************************************************************)
(* RunReslice, LABELWISE: the voting over the smoothed indicator images of *)
(* the labels, output voxel by output voxel                                *)
(***************************************************************************)
\* voxels of the reference space the voting is followed on
MaxVoteVoxels == 2

\* values of a smoothed, resampled indicator image at a voxel
Probabilities == {0, 1, 2}

\* the functor with >= in place of >: of equal values the last one wins
NaryLabelVotingFunctorLastWins(m_LabelArray, pix) ==
    LET best == CHOOSE b \in 1..Len(m_LabelArray) :
                   /\ \A i \in 1..Len(m_LabelArray) : pix[i] <= pix[b]
                   /\ \A i \in (b + 1)..Len(m_LabelArray) : pix[i] < pix[b]
    IN m_LabelArray[best]

\* the loop of operator(): for(int i = 1; i < m_Size; i++) if(pix[i] > best_val)
RECURSIVE VotingLoop(_, _, _, _, _)
VotingLoop(pix, m_Size, i, best_val, best_index) ==
    IF i >= m_Size THEN best_index
    ELSE IF pix[i + 1] > best_val
            THEN VotingLoop(pix, m_Size, i + 1, pix[i + 1], i)
            ELSE VotingLoop(pix, m_Size, i + 1, best_val, best_index)

\* NaryLabelVotingFunctor::operator(): best_val = pix[0], best_index = 0, the
\* loop, return m_LabelArray[best_index]
NaryLabelVotingFunctor(m_LabelArray, pix) ==
    m_LabelArray[VotingLoop(pix, Len(m_LabelArray), 1, pix[1], 0) + 1]

\* RunReslice is at the loop over the -rm images, all of them LABELWISE
VoteInit ==
    /\ pc = "vote_image"
    /\ cl = [argc |-> MaxArgc, i |-> MaxArgc]
    /\ param = [RunParamDefault EXCEPT
                   !.mode = "RESLICE", !.ref_image = TRUE,
                   !.images = [k \in 1..MaxImages |->
                                  [interp |-> [mode |-> "LABELWISE", sigma |-> 1]]]]
    /\ out = OutDefault
    /\ hist = HistDefault
    /\ aff = << >> /\ dfm = << >> /\ rs = << >> /\ files = << >>
    /\ itr = << >> /\ chn = << >> /\ rdm = << >> /\ cnv = << >>
    /\ use = [ i |-> 0, moving |-> << >>, label_array |-> << >>,
               voxels |-> 0, pix |-> << >>, voted |-> 0 ]

\* image i is read and its labels are scanned; one indicator image per
\* element of label_array is made an input of the voting filter
VoteScan ==
    /\ pc = "vote_image" /\ use.i < Len(param.images)
    /\ \E labels \in LabelImages :
          LET r == ScanLabels(labels, use.i, 0, 0, {}) IN
             /\ use' = [use EXCEPT !.moving = labels,
                                   !.label_array = LabelArray(r.label_set),
                                   !.voxels = 0, !.pix = << >>, !.voted = 0]
             /\ pc' = IF r.throws THEN "thrown" ELSE "vote_update"
    /\ UNCHANGED <<cl, param, out, hist, aff, dfm, rs, files, itr, chn, rdm, cnv>>

\* fltVoting->Update() on a filter without inputs: there is no indicator
\* image to take the output region from, and the update fails
VoteNoInput ==
    /\ pc = "vote_update" /\ use.label_array = << >>
    /\ pc' = "thrown"
    /\ UNCHANGED <<cl, param, out, hist>>
    /\ UNCHANGED runVars

\* fltVoting->Update(), one output voxel: the functor is applied to the
\* values pix of the inputs at the voxel, and its result voted is the value
\* of the output there
VoteVoxel ==
    /\ pc = "vote_update" /\ use.label_array # << >>
    /\ use.voxels < MaxVoteVoxels
    /\ \E pix \in [1..Len(use.label_array) -> Probabilities] :
          use' = [use EXCEPT !.voxels = @ + 1, !.pix = pix,
                             !.voted = NaryLabelVotingFunctor(use.label_array, pix)]
    /\ UNCHANGED <<pc, cl, param, out, hist, aff, dfm, rs, files, itr, chn, rdm, cnv>>

\* the output of image i is written, and the loop moves on
VoteWrite ==
    /\ pc = "vote_update" /\ use.label_array # << >>
    /\ use.voxels = MaxVoteVoxels
    /\ use' = [use EXCEPT !.i = @ + 1]
    /\ pc' = "vote_image"
    /\ UNCHANGED <<cl, param, out, hist, aff, dfm, rs, files, itr, chn, rdm, cnv>>

\* the loop over the images ends
VoteDone ==
    /\ pc = "vote_image" /\ use.i = Len(param.images)
    /\ pc' = "done"
    /\ UNCHANGED <<cl, param, out, hist>>
    /\ UNCHANGED runVars

VoteNext ==
    \/ VoteScan
    \/ VoteNoInput
    \/ VoteVoxel
    \/ VoteWrite
    \/ VoteDone

SpecVote == VoteInit /\ [][VoteNext]_vars

\* index b of pix is the first one of the largest value
FirstMaximal(pix, b) ==
    /\ \A i \in 1..Len(pix) : pix[i] <= pix[b]
    /\ \A i \in 1..(b - 1) : pix[i] < pix[b]

\* C24: at every voxel the voting returns the element of the label array
\* whose probability is the largest, the one of smallest index when several
\* are the largest; and every output label is a pixel value of the input
C24_VoteIsFirstArgmax ==
    (pc = "vote_update" /\ use.voxels > 0)
        => /\ \E b \in 1..Len(use.label_array) :
                 /\ FirstMaximal(use.pix, b)
                 /\ use.voted = use.label_array[b]
           /\ \E j \in 1..Len(use.moving) : use.voted = use.moving[j]

\* a voxel where two labels share the largest probability has been voted on
C24_Witness ==
    /\ pc = "vote_update" /\ use.voxels > 0
    /\ \E a, b \in 1..Len(use.label_array) :
          /\ a < b
          /\ use.pix[a] = use.pix[b]
          /\ FirstMaximal(use.pix, a)
          /\ use.voted = use.label_array[a]

(***************************************************************************)
(* RunReslice, LABELWISE: the scan of the labels, pixel by pixel, on       *)
(* images with about MaxLabelCount distinct values                         *)
(***************************************************************************)
\* pixels of value 0 at the start of a label image of the model
MaxLeadingZeros == 1

\* a label image of the model: zeros pixels of value 0, then count pixels
\* of the values first, first + 1, ...
RampImages ==
    { img \in [zeros : 0..MaxLeadingZeros, first : {0, 1},
               count : {0, MaxLabelCount - 1, MaxLabelCount, MaxLabelCount + 1}] :
         img.zeros + img.count > 0 }

\* moving->GetPixelContainer()->Size()
NPixels(img) == img.zeros + img.count

\* labels[j], j from 0
PixelAt(img, j) == IF j < img.zeros THEN 0 ELSE img.first + (j - img.zeros)

\* the number of distinct pixel values of the image
DistinctValues(img) == Cardinality({PixelAt(img, j) : j \in 0..(NPixels(img) - 1)})

\* RunReslice is at the loop over the -rm images, all of them LABELWISE
LabelsInit ==
    /\ pc = "label_image"
    /\ cl = [argc |-> MaxArgc, i |-> MaxArgc]
    /\ param = [RunParamDefault EXCEPT
                   !.mode = "RESLICE", !.ref_image = TRUE,
                   !.images = [k \in 1..MaxImages |->
                                  [interp |-> [mode |-> "LABELWISE", sigma |-> 1]]]]
    /\ out = OutDefault
    /\ hist = HistDefault
    /\ aff = << >> /\ dfm = << >> /\ rs = << >> /\ files = << >>
    /\ itr = << >> /\ chn = << >> /\ rdm = << >> /\ cnv = << >>
    /\ use = [ i |-> 0, img |-> << >>, j |-> 0, last_pixel |-> 0,
               label_set |-> {}, outcome |-> "" ]

\* image i is read: label_set is empty, last_pixel = 0, j = 0
LabelRead ==
    /\ pc = "label_image" /\ use.i < Len(param.images)
    /\ \E img \in RampImages :
          use' = [use EXCEPT !.img = img, !.j = 0, !.last_pixel = 0,
                             !.label_set = {}, !.outcome = ""]
    /\ pc' = "label_scan"
    /\ UNCHANGED <<cl, param, out, hist, aff, dfm, rs, files, itr, chn, rdm, cnv>>

\* one pass of the loop over the pixels: a pixel that differs from the last
\* one (any pixel, for the first image) is inserted, and a set of more than
\* MaxLabelCount elements throws
LabelScanPixel ==
    /\ pc = "label_scan" /\ use.j < NPixels(use.img)
    /\ LET pixel == PixelAt(use.img, use.j) IN
          IF use.last_pixel # pixel \/ use.i = 0
             THEN LET grown == use.label_set \cup {pixel} IN
                  IF Cardinality(grown) > MaxLabelCount
                     THEN /\ use' = [use EXCEPT !.label_set = grown, !.last_pixel = pixel,
                                                !.outcome = "rejected"]
                          /\ pc' = "thrown"
                     ELSE /\ use' = [use EXCEPT !.label_set = grown, !.last_pixel = pixel,
                                                !.j = @ + 1]
                          /\ pc' = pc
             ELSE /\ use' = [use EXCEPT !.j = @ + 1]
                  /\ pc' = pc
    /\ UNCHANGED <<cl, param, out, hist, aff, dfm, rs, files, itr, chn, rdm, cnv>>

\* the scan is over and has found labels: the voting pipeline runs on them
\* and the output is written
LabelProcess ==
    /\ pc = "label_scan" /\ use.j = NPixels(use.img)
    /\ use.label_set # {}
    /\ use' = [use EXCEPT !.outcome = "processed"]
    /\ pc' = "label_written"
    /\ UNCHANGED <<cl, param, out, hist, aff, dfm, rs, files, itr, chn, rdm, cnv>>

\* the scan is over and has found no label: the voting filter has no input
\* and its update fails
LabelNoInput ==
    /\ pc = "label_scan" /\ use.j = NPixels(use.img)
    /\ use.label_set = {}
    /\ use' = [use EXCEPT !.outcome = "failed"]
    /\ pc' = "thrown"
    /\ UNCHANGED <<cl, param, out, hist, aff, dfm, rs, files, itr, chn, rdm, cnv>>

\* the loop moves on to the next image
LabelLoop ==
    /\ pc = "label_written"
    /\ use' = [use EXCEPT !.i = @ + 1]
    /\ pc' = "label_image"
    /\ UNCHANGED <<cl, param, out, hist, aff, dfm, rs, files, itr, chn, rdm, cnv>>

\* the loop over the images ends
LabelDone ==
    /\ pc = "label_image" /\ use.i = Len(param.images)
    /\ pc' = "done"
    /\ UNCHANGED <<cl, param, out, hist>>
    /\ UNCHANGED runVars

LabelsNext ==
    \/ LabelRead
    \/ LabelScanPixel
    \/ LabelProcess
    \/ LabelNoInput
    \/ LabelLoop
    \/ LabelDone

SpecLabels == LabelsInit /\ [][LabelsNext]_vars

\* C25: reslicing a label image fails exactly if the image has more than
\* MaxLabelCount distinct values; an image with at most MaxLabelCount
\* distinct values is processed
C25_RejectedIffOverLimit ==
    (pc \in {"thrown", "label_written"})
        => (use.outcome # "processed" <=> DistinctValues(use.img) > MaxLabelCount)

\* the same for the first image of the -rm list
FirstImageRejectedIffOverLimit ==
    (pc \in {"thrown", "label_written"} /\ use.i = 0)
        => (use.outcome = "rejected" <=> DistinctValues(use.img) > MaxLabelCount)

\* an image is rejected exactly if more than MaxLabelCount values were
\* inserted into label_set
RejectedIffSetOverLimit ==
    (pc \in {"thrown", "label_written"})
        => (use.outcome = "rejected" <=> Cardinality(use.label_set) > MaxLabelCount)

(***************************************************************************)
(* MultiImageAffineMetricFilter: the accumulation of the metric and of its *)
(* gradient over the voxels, thread by thread, and the reduction.          *)
(* The accumulators are floating-point numbers: the model keeps Precision  *)
(* bits of mantissa and rounds every sum to nearest, ties to even.         *)
(***************************************************************************)
\* bits of mantissa of the floating-point numbers of the model
Precision == 3

\* worker threads of the filter
MaxThreads == 2

\* voxels of the output region of the filter
MaxMetricVoxels == 3

\* the least power of two a number of Precision bits does not reach
Big == Pow2(Precision)

\* coefficients of the gradient: ImageDimension * (ImageDimension + 1), in
\* two dimensions
NCoef == 2 * (2 + 1)

RECURSIVE ExpOf(_, _)
ExpOf(a, e) == IF a < Big * Pow2(e) THEN e ELSE ExpOf(a, e + 1)

RoundAbs(a) ==
    LET u == Pow2(ExpOf(a, 0))
        q == a \div u
        r == a % u
    IN IF 2 * r > u \/ (2 * r = u /\ q % 2 = 1) THEN (q + 1) * u ELSE q * u

\* the floating-point number nearest to x
FRound(x) == IF x < 0 THEN 0 - RoundAbs(0 - x) ELSE RoundAbs(x)

\* a + b in floating point
FAdd(a, b) == FRound(a + b)

\* accumulators that do not start from zero
ThreadDataStale ==
    [ metric |-> 1, mask |-> 1,
      gradient |-> [c \in 1..NCoef |-> 1], grad_mask |-> [c \in 1..NCoef |-> 1] ]

\* struct ThreadData, as its constructor leaves it: metric(0.0), mask(0.0),
\* gradient and grad_mask of ImageDimension * (ImageDimension+1) zeros
ThreadData ==
    [ metric |-> 0, mask |-> 0,
      gradient |-> [c \in 1..NCoef |-> 0], grad_mask |-> [c \in 1..NCoef |-> 0] ]

\* what a voxel adds to the metric, the mask and their gradients
VoxelTerms ==
    { [ metric |-> m, mask |-> 1,
        gradient |-> [c \in 1..NCoef |-> g], grad_mask |-> [c \in 1..NCoef |-> 1] ] :
          m \in {1, Big}, g \in {-1, Big} }

\* td += term, member by member
Accumulate(td, term) ==
    [ metric    |-> FAdd(td.metric, term.metric),
      mask      |-> FAdd(td.mask, term.mask),
      gradient  |-> [c \in 1..NCoef |-> FAdd(td.gradient[c], term.gradient[c])],
      grad_mask |-> [c \in 1..NCoef |-> FAdd(td.grad_mask[c], term.grad_mask[c])] ]

\* the splits of n voxels into nthreads consecutive pieces: owner[i] is the
\* thread of voxel i
Partitions(n, nthreads) ==
    { owner \in [1..n -> 1..nthreads] :
         \A i \in 1..(n - 1) : owner[i] <= owner[i + 1] }

\* the voxels of thread t, in the order the thread visits them
RECURSIVE RegionOf(_, _, _)
RegionOf(owner, t, i) ==
    IF i > Len(owner) THEN << >>
    ELSE (IF owner[i] = t THEN <<i>> ELSE << >>) \o RegionOf(owner, t, i + 1)

\* the filter is set up on an image of voxel terms, with a number of threads
\* and a split of the output region
MetricInit ==
    /\ pc = "metric_before"
    /\ cl = [argc |-> MaxArgc, i |-> MaxArgc]
    /\ param = [RunParamDefault EXCEPT !.mode = "AFFINE"]
    /\ out = OutDefault
    /\ hist = HistDefault
    /\ aff = << >> /\ dfm = << >> /\ rs = << >> /\ files = << >>
    /\ itr = << >> /\ chn = << >> /\ rdm = << >> /\ cnv = << >>
    /\ \E nthreads \in 1..MaxThreads :
       \E terms \in [1..MaxMetricVoxels -> VoxelTerms] :
       \E owner \in Partitions(MaxMetricVoxels, nthreads) :
          use = [ nthreads |-> nthreads, terms |-> terms, owner |-> owner,
                  m_ThreadData |-> << >>, done |-> << >>, summary |-> << >> ]

\* BeforeThreadedGenerateData: one ThreadData per thread
BeforeThreadedGenerateData ==
    /\ pc = "metric_before"
    /\ use' = [use EXCEPT !.m_ThreadData = [t \in 1..use.nthreads |-> ThreadData],
                          !.done = [t \in 1..use.nthreads |-> 0]]
    /\ pc' = "metric_threads"
    /\ UNCHANGED <<cl, param, out, hist, aff, dfm, rs, files, itr, chn, rdm, cnv>>

\* ThreadedGenerateData(outputRegionForThread, threadId), one voxel: the
\* thread adds the terms of its next voxel to m_ThreadData[threadId]
ThreadedGenerateData ==
    /\ pc = "metric_threads"
    /\ \E threadId \in 1..use.nthreads :
          LET region == RegionOf(use.owner, threadId, 1) IN
             /\ use.done[threadId] < Len(region)
             /\ use' = [use EXCEPT
                   !.m_ThreadData[threadId] =
                        Accumulate(@, use.terms[region[use.done[threadId] + 1]]),
                   !.done[threadId] = @ + 1]
    /\ UNCHANGED <<pc, cl, param, out, hist, aff, dfm, rs, files, itr, chn, rdm, cnv>>

\* the sum of the accumulators of the threads from t on, in the order of
\* their indices, added to summary
RECURSIVE Reduce(_, _, _)
Reduce(data, t, summary) ==
    IF t > Len(data) THEN summary
    ELSE Reduce(data, t + 1, Accumulate(summary, data[t]))

\* AfterThreadedGenerateData, called when every thread has returned: the
\* accumulators are added up
AfterThreadedGenerateData ==
    /\ pc = "metric_threads"
    /\ \A t \in 1..use.nthreads : use.done[t] = Len(RegionOf(use.owner, t, 1))
    /\ use' = [use EXCEPT !.summary = Reduce(use.m_ThreadData, 1, ThreadData)]
    /\ pc' = "metric_reduced"
    /\ UNCHANGED <<cl, param, out, hist, aff, dfm, rs, files, itr, chn, rdm, cnv>>

MetricNext ==
    \/ BeforeThreadedGenerateData
    \/ ThreadedGenerateData
    \/ AfterThreadedGenerateData

SpecMetric == MetricInit /\ [][MetricNext]_vars

\* all accumulators at zero
ZeroData ==
    [ metric |-> 0, mask |-> 0,
      gradient |-> [c \in 1..NCoef |-> 0], grad_mask |-> [c \in 1..NCoef |-> 0] ]

\* the terms of the voxels of a list, added up from sum on, one after the
\* other
RECURSIVE SumOver(_, _, _, _)
SumOver(terms, list, k, sum) ==
    IF k > Len(list) THEN sum
    ELSE SumOver(terms, list, k + 1, Accumulate(sum, terms[list[k]]))

\* the sum over all voxels taken sequentially
SequentialSum == SumOver(use.terms, [i \in 1..Len(use.terms) |-> i], 1, ZeroData)

\* the sums of the threads over their own voxels, added up in the order of
\* the thread indices
RECURSIVE SumOfThreadSums(_, _)
SumOfThreadSums(t, sum) ==
    IF t > use.nthreads THEN sum
    ELSE SumOfThreadSums(t + 1,
            Accumulate(sum, SumOver(use.terms, RegionOf(use.owner, t, 1), 1, ZeroData)))

\* a step of the threads changes the accumulator of the thread that counts
\* a voxel, and no other
OwnAccumulatorOnly ==
    [][ pc = "metric_threads" /\ pc' = "metric_threads"
          => \A t \in 1..use.nthreads :
                use.done'[t] = use.done[t] => use.m_ThreadData'[t] = use.m_ThreadData[t] ]_vars

\* the reduction has run only if every thread has gone through its region
ReducedAfterJoin ==
    pc = "metric_reduced"
        => \A t \in 1..use.nthreads : use.done[t] = Len(RegionOf(use.owner, t, 1))

ExactReducedIsSequentialSum ==
    (pc = "metric_reduced" /\ \A i \in 1..Len(use.terms) :
                                 use.terms[i].metric < Big /\ use.terms[i].gradient[1] < Big)
        => use.summary = SequentialSum

(***************************************************************************)
(* flatten_affine_transform and unflatten_affine_transform, one after the  *)
(* other, on transforms and on flat arrays of every dimension              *)
(***************************************************************************)
\* transforms of dimension n whose entries all differ: matrix(i, j) =
\* a + 10 i + j, offset(i) = c + 100 i (i, j from 0)
DistinctTransforms(n) ==
    { [ A |-> [i \in 1..n |-> [j \in 1..n |-> a + 10 * (i - 1) + (j - 1)]],
        b |-> [i \in 1..n |-> c + 100 * (i - 1)] ] :
          a \in {-2, 0, 3}, c \in {-1, 0, 5} }

\* flat arrays of n * (n + 1) entries that all differ
DistinctArrays(n) ==
    { [k \in 1..(n * (n + 1)) |-> s + d * k] : s \in {-3, 0, 7}, d \in {-1, 2} }

\* a transform to flatten, or a flat array to unflatten
FlatInit ==
    /\ cl = [argc |-> MaxArgc, i |-> MaxArgc]
    /\ param \in { [RunParamDefault EXCEPT !.mode = "AFFINE", !.dim = n] : n \in {2, 3, 4} }
    /\ out = OutDefault
    /\ hist = HistDefault
    /\ aff = << >> /\ dfm = << >> /\ rs = << >> /\ files = << >>
    /\ itr = << >> /\ chn = << >> /\ rdm = << >> /\ cnv = << >>
    /\ \/ /\ pc = "flatten"
          /\ \E tran \in DistinctTransforms(param.dim) \cup {MakeTransform(param.dim, 1, 0, 0)} :
                use = [ tran |-> tran, flat_array |-> << >>, first |-> tran ]
       \/ /\ pc = "unflatten"
          /\ \E x \in DistinctArrays(param.dim) :
                use = [ tran |-> << >>, flat_array |-> x, first |-> x ]

\* flatten_affine_transform(tran, flat_array)
FlattenFirst ==
    /\ pc = "flatten"
    /\ use' = [use EXCEPT !.flat_array = flatten_affine_transform(use.tran), !.tran = << >>]
    /\ pc' = "unflatten_back"
    /\ UNCHANGED <<cl, param, out, hist, aff, dfm, rs, files, itr, chn, rdm, cnv>>

\* unflatten_affine_transform(flat_array, tran) of the flattened transform
UnflattenBack ==
    /\ pc = "unflatten_back"
    /\ use' = [use EXCEPT !.tran = unflatten_affine_transform(use.flat_array, param.dim)]
    /\ pc' = "transform_back"
    /\ UNCHANGED <<cl, param, out, hist, aff, dfm, rs, files, itr, chn, rdm, cnv>>

\* unflatten_affine_transform(flat_array, tran)
UnflattenFirst ==
    /\ pc = "unflatten"
    /\ use' = [use EXCEPT !.tran = unflatten_affine_transform(use.flat_array, param.dim),
                          !.flat_array = << >>]
    /\ pc' = "flatten_back"
    /\ UNCHANGED <<cl, param, out, hist, aff, dfm, rs, files, itr, chn, rdm, cnv>>

\* flatten_affine_transform(tran, flat_array) of the unflattened array
FlattenBack ==
    /\ pc = "flatten_back"
    /\ use' = [use EXCEPT !.flat_array = flatten_affine_transform(use.tran)]
    /\ pc' = "array_back"
    /\ UNCHANGED <<cl, param, out, hist, aff, dfm, rs, files, itr, chn, rdm, cnv>>

FlatNext ==
    \/ FlattenFirst
    \/ UnflattenBack
    \/ UnflattenFirst
    \/ FlattenBack

SpecFlat == FlatInit /\ [][FlatNext]_vars

\* flat (positions from 0) holds, per axis i, offset_i at i * (n + 1) and
\* row i of the matrix at the n positions behind it, and nothing else
FlatLayout(n, tran, flat) ==
    /\ Len(flat) = n * (n + 1)
    /\ \A i \in 0..(n - 1) :
          /\ flat[i * (n + 1) + 1] = tran.b[i + 1]
          /\ \A j \in 1..n : flat[i * (n + 1) + j + 1] = tran.A[i + 1][j]

\* C27: in dimensions 2, 3 and 4 flatten_affine_transform writes, per axis
\* i, the offset at i * (D + 1) and row i of the matrix behind it, on
\* D * (D + 1) positions, and unflatten_affine_transform with scaling 1
\* undoes it, in both orders
C27_FlattenLayoutAndInverse ==
    /\ pc = "unflatten_back" => FlatLayout(param.dim, use.first, use.flat_array)
    /\ pc = "transform_back" => use.tran = use.first
    /\ pc = "array_back" => use.flat_array = use.first

\* a transform of dimension 4 with entries that all differ has come back
\* from the flat array
C27_Witness ==
    /\ pc = "transform_back" /\ param.dim = 4
    /\ use.first \in DistinctTransforms(4)
    /\ use.tran = use.first
    /\ FlatLayout(4, use.first, use.flat_array)

(***************************************************************************)
(* RunAffine twice on the same command line, once without and once with    *)
(* -debug-deriv, level by level. The optimizer is a function of its        *)
(* starting point: both runs get the same answer from it.                  *)
(***************************************************************************)
\* what RunAffine holds between two levels of one run
PairStart == [Q_physical |-> << >>, tStart |-> << >>, crashed |-> FALSE]

\* one pass of the loop over the levels, for the run with flag_debug_deriv =
\* flag: the initial transform of the level, Q_physical under -debug-deriv,
\* and Q_physical after the minimization if the count of the level is
\* positive. stay: the optimizer stops where it started, otherwise at t;
\* crash, Qg: what a read of a 0 x 0 Q_physical does
RunAffineLevel(side, flag, stay, t, crash, Qg) ==
    LET n == param.dim
        level == aff.level
        empty == level > 0 /\ side.Q_physical = << >>
    IN IF side.crashed THEN side
       ELSE IF empty /\ crash THEN [side EXCEPT !.crashed = TRUE]
       ELSE LET tLevel ==
                   IF level = 0
                      THEN IF param.initial_affine.filename # ""
                              THEN MapPhysicalRASSpaceToAffine(n, 0, nlevels,
                                       ReadAffineMatrix(param.initial_affine).Qp)
                              ELSE JitteredIdentity(n, 0)
                      ELSE MapPhysicalRASSpaceToAffine(n, level, nlevels,
                               IF empty THEN Qg ELSE side.Q_physical)
                xLevel == GetCoefficients(n, level, nlevels, tLevel)
                debugged == IF flag
                               THEN MapAffineToPhysicalRASSpace(n, level, nlevels, tLevel)
                               ELSE side.Q_physical
                xEnd == IF stay THEN xLevel ELSE GetCoefficients(n, level, nlevels, t)
                tFinal == GetTransform(n, level, nlevels, xEnd)
            IN [side EXCEPT
                   !.tStart = Append(@, tLevel),
                   !.Q_physical =
                       IF param.iter_per_level[level + 1] > 0
                          THEN MapAffineToPhysicalRASSpace(n, level, nlevels, tFinal)
                          ELSE debugged]

\* the two runs have read their images
PairInit ==
    /\ pc = "pair_level"
    /\ cl = [argc |-> MaxArgc, i |-> MaxArgc]
    /\ param \in {p \in AffineParams : ~p.flag_debug_deriv}
    /\ out = OutDefault
    /\ hist = HistDefault
    /\ aff = [level |-> 0, plain |-> PairStart, deriv |-> PairStart]
    /\ dfm = << >> /\ rs = << >> /\ files = << >>
    /\ itr = << >> /\ chn = << >> /\ rdm = << >> /\ cnv = << >> /\ use = << >>

\* level 0: ReadAffineMatrix throws on the -ia file, in both runs
PairReadFails ==
    /\ pc = "pair_level" /\ aff.level = 0
    /\ param.initial_affine.filename # ""
    /\ ReadAffineMatrix(param.initial_affine).throws
    /\ pc' = "thrown"
    /\ UNCHANGED <<cl, param, out, hist, aff, dfm, rs, files>>
    /\ UNCHANGED kernVars

\* both runs go through the level
PairLevel ==
    /\ pc = "pair_level" /\ aff.level < nlevels
    /\ ~(aff.level = 0 /\ param.initial_affine.filename # ""
            /\ ReadAffineMatrix(param.initial_affine).throws)
    /\ \E stay \in BOOLEAN, t \in OptResults(param.dim),
          crash \in BOOLEAN, Qg \in GarbageMatrices(param.dim) :
          aff' = [aff EXCEPT
                     !.plain = RunAffineLevel(@, FALSE, stay, t, crash, Qg),
                     !.deriv = RunAffineLevel(@, TRUE, stay, t, crash, Qg),
                     !.level = @ + 1]
    /\ UNCHANGED <<pc, cl, param, out, hist, dfm, rs, files>>
    /\ UNCHANGED kernVars

\* matrixFile << Q_physical, in each run that has come this far
PairWrite ==
    /\ pc = "pair_level" /\ aff.level = nlevels
    /\ files' = <<[name |-> "output", unit |-> 0, written |-> ~aff.plain.crashed,
                   content |-> aff.plain.Q_physical],
                  [name |-> "output", unit |-> 1, written |-> ~aff.deriv.crashed,
                   content |-> aff.deriv.Q_physical]>>
    /\ pc' = "done"
    /\ UNCHANGED <<cl, param, out, hist, aff, dfm, rs>>
    /\ UNCHANGED kernVars

PairNext ==
    \/ PairReadFails
    \/ PairLevel
    \/ PairWrite

SpecDeriv == PairInit /\ [][PairNext]_vars

\* C29: the run with -debug-deriv starts every level where the run without
\* it does, and writes the same matrix to the output file
C29_DebugDerivObservationOnly ==
    /\ pc \in {"pair_level", "done"}
          => /\ aff.plain.tStart = aff.deriv.tStart
             /\ aff.plain.crashed = aff.deriv.crashed
    /\ pc = "done" => files[1].content = files[2].content

\* the same for the schedules whose counts are all positive
DebugDerivSameIfAllPositive ==
    (\A l \in 1..nlevels : param.iter_per_level[l] > 0)
        => C29_DebugDerivObservationOnly

====
